---- MODULE Spec2Model ----
(***************************************************************************)
(* A model of the reinforcement-learning engine of CryptoApp               *)
(* (src/ml/reinforcement_learning_engine.py, src/ml/rl_integration.py):    *)
(* the simulated trading environment, the DQN agent with its replay        *)
(* memory, and the RL gem detector that drives both.                       *)
(*                                                                         *)
(* Python floats are modelled as exact rationals <<n, d>> in lowest terms  *)
(* with d > 0, so the arithmetic is that of the reals the floats           *)
(* approximate; np.tanh is modelled by a piecewise-linear table.           *)
(***************************************************************************)
EXTENDS Integers, Sequences, FiniteSets, TLC

VARIABLES
    current_balance,   \* CryptoTradingEnvironment.current_balance
    positions,         \* CryptoTradingEnvironment.positions: symbol -> position
    trade_history,     \* CryptoTradingEnvironment.trade_history
    current_step,      \* CryptoTradingEnvironment.current_step
    ret,               \* what the last call of step or reset returned
    torch_available,   \* TORCH_AVAILABLE: whether "import torch" succeeded
    memory,            \* DQNAgent.memory, the replay buffer
    epsilon,           \* DQNAgent.epsilon
    q_network,         \* DQNAgent.q_network: None, or the gradient steps taken
    target_network,    \* DQNAgent.target_network: None, or the weights it holds
    remember_calls,    \* how many times DQNAgent.remember has been called
    acted,             \* what the last call of DQNAgent.act was given and returned
    learning_episodes, \* RLGemDetector.learning_episodes
    analysis,          \* what the last call of analyze_coin_with_rl was given
                       \* and returned
    performance_history, \* RLGemDetector.performance_history
    trade_log,         \* RLLiveTrading.trade_log
    model_file,        \* the bundle save_model last wrote to the model's path
    call,              \* the last call of record_trade_outcome,
                       \* learn_from_real_outcome, save_model or load_model:
                       \* what it was given and what it returned
    threads,           \* where each request thread is in its analysis
    calc,              \* the last evaluation of one of the pure functions
    learnt,            \* at which remember call _simulate_action_for_learning
                       \* last called replay, and at which it last called
                       \* update_target_network
    training,          \* where rl_train is in its back-test, and the results
                       \* so far
    live               \* the application's detector rl_detector, as far as
                       \* save_model reads it, while the detector of the
                       \* other variables is one a trainer built

envVars == <<current_balance, positions, trade_history, current_step>>
agentVars == <<torch_available, memory, epsilon, q_network, target_network,
               remember_calls>>
detectorVars == <<acted, learning_episodes, analysis, performance_history,
                  trade_log, model_file, call, threads, calc, learnt,
                  training, live>>
vars == <<current_balance, positions, trade_history, current_step, ret,
          torch_available, memory, epsilon, q_network, target_network,
          remember_calls, acted, learning_episodes, analysis,
          performance_history, trade_log, model_file, call, threads, calc,
          learnt, training, live>>

(***************************************************************************)
(* Float arithmetic, as exact rationals.                                   *)
(***************************************************************************)
Abs(x) == IF x < 0 THEN -x ELSE x

RECURSIVE GCD(_, _)
GCD(a, b) == IF b = 0 THEN a ELSE GCD(b, a % b)

\* The rational n/d in lowest terms with a positive denominator.
Q(n, d) ==
    LET g == GCD(Abs(n), Abs(d))
        s == IF d < 0 THEN -1 ELSE 1
    IN  <<(s * n) \div g, (s * d) \div g>>

Zero == Q(0, 1)
One == Q(1, 1)

QMul(x, y) ==
    LET a == Q(x[1], y[2])
        b == Q(y[1], x[2])
    IN  Q(a[1] * b[1], a[2] * b[2])

QDiv(x, y) == QMul(x, Q(y[2], y[1]))

QAdd(x, y) ==
    LET g == GCD(x[2], y[2])
        l == (x[2] \div g) * y[2]
    IN  Q(x[1] * (l \div x[2]) + y[1] * (l \div y[2]), l)

QNeg(x) == <<-x[1], x[2]>>
QSub(x, y) == QAdd(x, QNeg(y))

\* a/b < c/d for b, d > 0, by comparing the continued fractions: no product
\* is formed, so no comparison overflows.
RECURSIVE FracLt(_, _, _, _)
FracLt(a, b, c, d) ==
    LET qa == a \div b
        qc == c \div d
        ra == a % b
        rc == c % d
    IN  IF qa # qc THEN qa < qc
        ELSE IF rc = 0 THEN FALSE
        ELSE IF ra = 0 THEN TRUE
        ELSE FracLt(d, rc, b, ra)

QLt(x, y) == FracLt(x[1], x[2], y[1], y[2])

QLe(x, y) == ~QLt(y, x)
QMin(x, y) == IF QLt(y, x) THEN y ELSE x
QMax(x, y) == IF QLt(x, y) THEN y ELSE x
QClip(x, lo, hi) == QMin(QMax(x, lo), hi)

\* np.tanh on x >= 0: linear between the knots of a table of two-decimal
\* values, and 1 from the last knot on (tanh(5) = 0.9999; in double
\* precision tanh(x) is exactly 1.0 from x = 20 on).
\* TanhKnots[i] = <<x_i, tanh(x_i)>>.
TanhKnots ==
    << <<Q(0, 1), Q(0, 1)>>,    <<Q(1, 5), Q(20, 100)>>,
       <<Q(1, 2), Q(46, 100)>>, <<Q(1, 1), Q(76, 100)>>,
       <<Q(2, 1), Q(96, 100)>>, <<Q(5, 1), Q(1, 1)>> >>

TanhPos(x) ==
    IF QLe(TanhKnots[Len(TanhKnots)][1], x) THEN One
    ELSE LET i == CHOOSE k \in 1..(Len(TanhKnots) - 1) :
                     QLe(TanhKnots[k][1], x) /\ QLt(x, TanhKnots[k + 1][1])
             lo == TanhKnots[i]
             hi == TanhKnots[i + 1]
             slope == QDiv(QSub(hi[2], lo[2]), QSub(hi[1], lo[1]))
         IN  QAdd(lo[2], QMul(QSub(x, lo[1]), slope))

Tanh(x) == IF QLt(x, Zero) THEN QNeg(TanhPos(QNeg(x))) ELSE TanhPos(x)

(***************************************************************************)
(* TradingAction (the features field, which the environment never reads,   *)
(* is left out; timestamps are whole days).                                *)
(***************************************************************************)
TradingAction(timestamp, symbol, action, confidence, price, gem_score) ==
    [timestamp |-> timestamp, symbol |-> symbol, action |-> action,
     confidence |-> confidence, price |-> price, gem_score |-> gem_score]

NoAction == TradingAction(0, "", "none", Zero, Zero, 0)

EmptyPositions == [s \in {} |-> 0]

(***************************************************************************)
(* CryptoTradingEnvironment                                                *)
(***************************************************************************)
initial_balance == 10000
InitialBalance == Q(initial_balance, 1)

\* The step count at which _is_episode_done reports the time limit.
max_steps == 1000

\* What an operation of the environment leaves behind: whether it raised,
\* the reward it returned, and the balance, the positions and the history.
Outcome(raised, reward, balance, pos, history) ==
    [raised |-> raised, reward |-> reward, balance |-> balance,
     positions |-> pos, history |-> history]

Raised == Outcome(TRUE, Zero, current_balance, positions, trade_history)

DropKey(f, k) == [s \in DOMAIN f \ {k} |-> f[s]]
PutKey(f, k, v) == [s \in DOMAIN f \cup {k} |-> IF s = k THEN v ELSE f[s]]

\* A faulty close reward, to test the properties against: the return is
\* scaled but neither squashed by tanh nor clipped.
calculate_sell_reward_unsquashed(profit_loss_percent, holding_days, confidence) ==
    LET base_reward == QDiv(profit_loss_percent, Q(50, 1))
        time_factor ==
            QMax(Q(1, 2), QSub(One, QMul(Q(holding_days, 365), Q(1, 2))))
    IN  QMul(base_reward, time_factor)

calculate_sell_reward(profit_loss_percent, holding_days, confidence) ==
    LET base_reward == Tanh(QDiv(profit_loss_percent, Q(50, 1)))
        time_factor ==
            QMax(Q(1, 2), QSub(One, QMul(Q(holding_days, 365), Q(1, 2))))
        confidence_bonus ==
            IF QLt(Zero, profit_loss_percent) /\ QLt(Q(7, 10), confidence)
            THEN Q(2, 10)
            ELSE IF QLt(profit_loss_percent, Zero) /\ QLt(confidence, Q(3, 10))
                 THEN Q(1, 10)
                 ELSE Zero
        total_reward == QAdd(QMul(base_reward, time_factor), confidence_bonus)
    IN  QClip(total_reward, Q(-2, 1), Q(2, 1))

\* A faulty hold reward, to test the properties against: the thresholds
\* themselves count as weak and as strong.
calculate_hold_reward_inclusive(action) ==
    IF action.gem_score <= 50 THEN Q(5, 100)
    ELSE IF action.gem_score >= 80 THEN Q(-1, 10)
         ELSE Q(-2, 100)

calculate_hold_reward(action) ==
    IF action.gem_score < 50 THEN Q(5, 100)
    ELSE IF action.gem_score > 80 THEN Q(-1, 10)
         ELSE Q(-2, 100)

\* A faulty sizing, to test the properties against: the 5% cap is missing.
risk_percent_uncapped(action) == QMul(action.confidence, Q(1, 10))

\* A faulty sizing, to test the properties against: the share is computed
\* in percent and used as a fraction.
risk_percent_in_percent(action) ==
    QMin(QMul(action.confidence, Q(10, 1)), Q(5, 1))

\* _execute_buy, line 123: the share of the balance a buy spends.
risk_percent(action) == QMin(QMul(action.confidence, Q(1, 10)), Q(5, 100))

\* A faulty minimum, to test the properties against: 0.1% instead of 1%.
below_minimum_per_mille(position_value) ==
    QLt(position_value, QMul(current_balance, Q(1, 1000)))

\* _execute_buy, line 126: a position under 1% of the balance is refused.
below_minimum(position_value) ==
    QLt(position_value, QMul(current_balance, Q(1, 100)))

\* _execute_buy, line 154.
immediate_reward(action) ==
    QMul(QMul(action.confidence, Q(action.gem_score, 100)), Q(1, 10))

\* A faulty merge, to test the properties against: the two prices are
\* averaged without their quantities.
merge_position_unweighted(existing, quantity, action) ==
    [quantity |-> QAdd(existing.quantity, quantity),
     entry_price |-> QDiv(QAdd(existing.entry_price, action.price), Q(2, 1)),
     entry_date |-> existing.entry_date]

\* _execute_buy, lines 134-143: a further buy of a held symbol is averaged in.
merge_position(existing, quantity, action) ==
    LET total_quantity == QAdd(existing.quantity, quantity)
        avg_price ==
            QDiv(QAdd(QMul(existing.quantity, existing.entry_price),
                      QMul(quantity, action.price)),
                 total_quantity)
    IN  [quantity |-> total_quantity,
         entry_price |-> avg_price,
         entry_date |-> existing.entry_date]

\* A faulty opening, to test the properties against: the position's cost is
\* recorded as its entry price.
new_position_at_cost(quantity, action) ==
    [quantity |-> quantity,
     entry_price |-> QMul(quantity, action.price),
     entry_date |-> action.timestamp]

\* _execute_buy, lines 145-149.
new_position(quantity, action) ==
    [quantity |-> quantity,
     entry_price |-> action.price,
     entry_date |-> action.timestamp]

\* _execute_buy, lines 129-155, for a position of position_value.
open_position(action, position_value, quantity) ==
    IF action.symbol \in DOMAIN positions
       /\ QAdd(positions[action.symbol].quantity, quantity) = Zero
    THEN Raised   \* ZeroDivisionError in the average price
    ELSE Outcome(FALSE, immediate_reward(action),
                 QSub(current_balance, position_value),
                 PutKey(positions, action.symbol,
                        IF action.symbol \in DOMAIN positions
                        THEN merge_position(positions[action.symbol],
                                            quantity, action)
                        ELSE new_position(quantity, action)),
                 trade_history)

sized_buy(action, position_value) ==
    IF below_minimum(position_value)
    THEN Outcome(FALSE, Q(-1, 10), current_balance, positions, trade_history)
    ELSE IF action.price = Zero
    THEN Raised   \* ZeroDivisionError in position_value / action.price
    ELSE open_position(action, position_value,
                       QDiv(position_value, action.price))

execute_buy(action) ==
    sized_buy(action, QMul(current_balance, risk_percent(action)))

\* A faulty penalty, to test the properties against: the missing position
\* is taken for a rejected buy.
no_position_reward_of_buy == Q(-1, 10)

\* _execute_sell, line 162: the reward of a sell of a symbol that is not held.
no_position_reward == Q(-1, 2)

\* A faulty percentage, to test the properties against: the profit is
\* related to the proceeds instead of the cost.
profit_loss_percent_of_proceeds(sell_value, entry_value) ==
    QMul(QDiv(QSub(sell_value, entry_value), sell_value), Q(100, 1))

\* _execute_sell, lines 168-170.
profit_loss_percent(sell_value, entry_value) ==
    QMul(QDiv(QSub(sell_value, entry_value), entry_value), Q(100, 1))

\* A faulty close, to test the properties against: every position is
\* deleted.
close_every_position(pos, symbol) == [s \in {} |-> 0]

\* _execute_sell, line 193: del self.positions[symbol]
close_position(pos, symbol) == DropKey(pos, symbol)

\* _execute_sell, lines 182-189: the TradingOutcome of a close.
TradingOutcome(action, holding_days, pl_percent, reward) ==
    [action |-> action,
     final_price |-> action.price,
     holding_period_days |-> holding_days,
     profit_loss_percent |-> pl_percent,
     reward |-> reward,
     success |-> QLt(Zero, pl_percent)]

\* _execute_sell, lines 176-195, once the close has been valued.
settle_sale(action, sell_value, pl_percent, holding_days, reward) ==
    Outcome(FALSE, reward, QAdd(current_balance, sell_value),
            close_position(positions, action.symbol),
            Append(trade_history,
                   TradingOutcome(action, holding_days, pl_percent, reward)))

rewarded_sale(action, sell_value, pl_percent, holding_days) ==
    settle_sale(action, sell_value, pl_percent, holding_days,
                calculate_sell_reward(pl_percent, holding_days,
                                      action.confidence))

valued_sale(action, position, sell_value, entry_value) ==
    IF entry_value = Zero
    THEN Raised   \* ZeroDivisionError in profit_loss / entry_value
    ELSE rewarded_sale(action, sell_value,
                       profit_loss_percent(sell_value, entry_value),
                       action.timestamp - position.entry_date)

sell_position(action, position) ==
    valued_sale(action, position,
                QMul(position.quantity, action.price),
                QMul(position.quantity, position.entry_price))

execute_sell(action) ==
    IF action.symbol \notin DOMAIN positions
    THEN Outcome(FALSE, no_position_reward, current_balance, positions,
                 trade_history)
    ELSE sell_position(action, positions[action.symbol])

execute_action(action) ==
    IF action.action = "buy" THEN execute_buy(action)
    ELSE IF action.action = "sell" THEN execute_sell(action)
         ELSE Outcome(FALSE, calculate_hold_reward(action), current_balance,
                      positions, trade_history)

RECURSIVE SumValues(_, _)
SumValues(pos, keys) ==
    IF keys = {} THEN Zero
    ELSE LET k == CHOOSE s \in keys : TRUE
         IN  QAdd(QMul(pos[k].quantity, pos[k].entry_price),
                  SumValues(pos, keys \ {k}))

calculate_portfolio_value(balance, pos) ==
    QAdd(balance, SumValues(pos, DOMAIN pos))

\* Faulty ends of episode, to test the properties against: one never
\* reports the target, the other reports the time limit a step late.
is_episode_done_without_target(step, balance, pos) ==
    \/ step >= max_steps
    \/ QLt(balance, QMul(InitialBalance, Q(2, 10)))

is_episode_done_after_limit(step, balance, pos) ==
    \/ step > max_steps
    \/ QLt(balance, QMul(InitialBalance, Q(2, 10)))
    \/ QLt(QMul(InitialBalance, Q(2, 1)), calculate_portfolio_value(balance, pos))

is_episode_done(step, balance, pos) ==
    IF step >= max_steps THEN TRUE
    ELSE IF QLt(balance, QMul(InitialBalance, Q(2, 10))) THEN TRUE
    ELSE IF QLt(QMul(InitialBalance, Q(2, 1)),
                calculate_portfolio_value(balance, pos)) THEN TRUE
    ELSE FALSE

get_state(step, balance, pos) ==
    [balance |-> balance,
     positions_count |-> Cardinality(DOMAIN pos),
     total_portfolio_value |-> calculate_portfolio_value(balance, pos),
     available_cash_ratio |-> QDiv(balance, InitialBalance),
     step |-> step]

\* CryptoTradingEnvironment.step, lines 96-107, given what _execute_action
\* did: the step is counted, then the episode's end is evaluated on the new
\* state.  An exception raised while executing leaves the environment as it
\* was.
finish_step(action, out) ==
    IF out.raised
    THEN /\ ret' = [op |-> "step", action |-> action, raised |-> TRUE,
                    reward |-> Zero, done |-> FALSE]
         /\ UNCHANGED envVars
    ELSE /\ current_balance' = out.balance
         /\ positions' = out.positions
         /\ trade_history' = out.history
         /\ current_step' = current_step + 1
         /\ ret' = [op |-> "step", action |-> action, raised |-> FALSE,
                    reward |-> out.reward,
                    done |-> is_episode_done(current_step + 1, out.balance,
                                             out.positions)]

step(action) == finish_step(action, execute_action(action))

reset ==
    /\ current_balance' = InitialBalance
    /\ positions' = EmptyPositions
    /\ current_step' = 0
    /\ UNCHANGED trade_history
    /\ ret' = [op |-> "reset", action |-> NoAction, raised |-> FALSE,
               reward |-> Zero, done |-> FALSE]

(***************************************************************************)
(* DQNAgent                                                                *)
(***************************************************************************)
\* deque(maxlen=10000)
maxlen == 10000

epsilon_min == Q(1, 100)
epsilon_decay == Q(995, 1000)

\* The agent's networks are abstracted to the number of gradient steps
\* behind their weights.  The two networks are built by separate calls of
\* _build_model, so the target starts with weights of its own.
None == -1
OwnInitialWeights == -2

\* dict.get(key, default)
Get(dict, key, default) == IF key \in DOMAIN dict THEN dict[key] ELSE default

\* dict.update(other)
Update(dict, other) ==
    [k \in DOMAIN dict \cup DOMAIN other |->
        IF k \in DOMAIN other THEN other[k] ELSE dict[k]]

\* A faulty append, to test the properties against: a full deque drops the
\* item it is given.
DequeAppendDropNewest(deque, item) ==
    IF Len(deque) = maxlen THEN deque ELSE Append(deque, item)

\* collections.deque.append on a deque built with maxlen: a full deque drops
\* its leftmost item.
DequeAppend(deque, item) ==
    IF Len(deque) = maxlen THEN Append(Tail(deque), item)
    ELSE Append(deque, item)

remember(state, action, reward, next_state, done) ==
    /\ memory' = DequeAppend(memory, <<state, action, reward, next_state, done>>)
    /\ remember_calls' = remember_calls + 1

\* A faulty fallback, to test the properties against: the thresholds
\* themselves buy and sell.
heuristic_action_inclusive(coin_features) ==
    LET gem_score == Get(coin_features, "gem_score", 0)
        fear_score == Get(coin_features, "fear_opportunity_score", Zero)
        volume_anomaly == Get(coin_features, "volume_surge_anomaly", Zero)
        buy_score ==
            QDiv(QAdd(QAdd(Q(gem_score, 100), fear_score), volume_anomaly),
                 Q(3, 1))
    IN  IF QLe(Q(7, 10), buy_score) THEN <<1, buy_score>>
        ELSE IF QLe(buy_score, Q(3, 10)) THEN <<2, QSub(One, buy_score)>>
        ELSE <<0, Q(1, 2)>>

\* The actions of the agent: 0 = hold, 1 = buy, 2 = sell.
heuristic_action(coin_features) ==
    LET gem_score == Get(coin_features, "gem_score", 0)
        fear_score == Get(coin_features, "fear_opportunity_score", Zero)
        volume_anomaly == Get(coin_features, "volume_surge_anomaly", Zero)
        buy_score ==
            QDiv(QAdd(QAdd(Q(gem_score, 100), fear_score), volume_anomaly),
                 Q(3, 1))
    IN  IF QLt(Q(7, 10), buy_score) THEN <<1, buy_score>>
        ELSE IF QLt(buy_score, Q(3, 10)) THEN <<2, QSub(One, buy_score)>>
        ELSE <<0, Q(1, 2)>>

\* DQNAgent.act.  random is the draw of np.random.random(), randrange that
\* of random.randrange(action_size), and q_choice what the network's
\* q-values give: their argmax and the largest softmax probability.
act(coin_features, random, randrange, q_choice) ==
    IF QLe(random, epsilon)
    THEN <<randrange, Q(1, 2)>>
    ELSE IF torch_available /\ q_network # None
         THEN q_choice
         ELSE heuristic_action(coin_features)

\* DQNAgent.replay on the memory as it is by now (memory'): one gradient
\* step on a sampled batch, then the decay of epsilon.
replay(batch_size) ==
    IF ~torch_available \/ Len(memory') < batch_size \/ q_network = None
    THEN UNCHANGED <<q_network, epsilon>>
    ELSE /\ q_network' = q_network + 1
         /\ epsilon' = IF QLt(epsilon_min, epsilon)
                       THEN QMul(epsilon, epsilon_decay)
                       ELSE epsilon

\* DQNAgent.update_target_network on the q-network as it is by now
\* (q_network').
update_target_network ==
    IF torch_available /\ q_network' # None /\ target_network # None
    THEN target_network' = q_network'
    ELSE UNCHANGED target_network

(***************************************************************************)
(* HiddenGemDetector, as far as RLGemDetector uses it.  A coin is the      *)
(* coin_data dictionary: its symbol, its price, the shape of its           *)
(* price_change_24h entry ("absent", a "dict" keyed by currency, or a      *)
(* plain "number"), and what the alpha feature extractors compute from it. *)
(***************************************************************************)
\* extract_advanced_features, line 58:
\* coin_data.get('price_change_24h', {}).get('usd', 0) raises AttributeError
\* when the entry is a number.
extract_raises(coin) == coin.price_change_24h = "number"

\* The features the agent reads.  No feature is named gem_score.
extract_advanced_features(coin) ==
    [current_price |-> coin.price,
     fear_opportunity_score |-> coin.fear_opportunity_score,
     volume_surge_anomaly |-> coin.volume_surge_anomaly]

\* Python's None where a dictionary is expected.
NoAnalysis == <<>>

\* What predict_hidden_gem answers when its model is loaded and the
\* prediction goes through.
BaseAnalysis ==
    [is_hidden_gem |-> TRUE, gem_probability |-> Q(9, 10),
     confidence |-> Q(9, 10), gem_score |-> Q(90, 1), risk_level |-> "Low",
     risk_score |-> Q(2, 10), key_strengths |-> <<"Low market cap">>,
     key_weaknesses |-> <<>>, recommendation |-> "Strong buy"]

\* predict_hidden_gem: None without a loaded model, and None when anything
\* raised on the way.
predict_hidden_gem(coin, model_loaded) ==
    IF ~model_loaded THEN NoAnalysis
    ELSE IF extract_raises(coin) THEN NoAnalysis
    ELSE BaseAnalysis

(***************************************************************************)
(* RLGemDetector                                                           *)
(***************************************************************************)
ActionNames == <<"hold", "buy", "sell">>

\* analyze_coin_with_rl, lines 474-484.
FallbackAnalysis ==
    [is_hidden_gem |-> FALSE, gem_probability |-> Q(1, 2),
     confidence |-> Q(1, 2), gem_score |-> Q(50, 1), risk_level |-> "Medium",
     risk_score |-> Q(1, 2), key_strengths |-> <<>>,
     key_weaknesses |-> <<"Base model not available">>,
     recommendation |-> "No recommendation available"]

\* analyze_coin_with_rl, lines 469-491: the dictionary it returns.
enhanced_analysis(base_analysis, decision) ==
    Update(IF base_analysis # NoAnalysis THEN base_analysis
           ELSE FallbackAnalysis,
           [rl_recommendation |-> ActionNames[decision[1] + 1],
            rl_confidence |-> decision[2],
            rl_reasoning |-> ActionNames[decision[1] + 1],
            learning_episode |-> learning_episodes,
            agent_experience_level |-> Len(memory)])

\* _simulate_action_for_learning, lines 556-564, after the step.
\* No call of _simulate_action_for_learning has called replay or
\* update_target_network yet.
NotLearnt == [replayed_at |-> None, synced_at |-> None]

\* After lines 558-564: the remember call at which replay was last called,
\* and the one at which update_target_network was.
learnt_by_now ==
    [replayed_at |-> IF Len(memory') > 100 /\ Len(memory') % 10 = 0
                     THEN remember_calls'
                     ELSE learnt.replayed_at,
     synced_at |-> IF Len(memory') % 100 = 0
                   THEN remember_calls'
                   ELSE learnt.synced_at]

learn_from_step(state, action) ==
    IF ret'.raised
    THEN UNCHANGED <<memory, remember_calls, q_network, epsilon,
                     target_network, learnt>>
    ELSE /\ remember(state, action, ret'.reward,
                     get_state(current_step', current_balance', positions'),
                     ret'.done)
         /\ IF Len(memory') > 100 /\ Len(memory') % 10 = 0
            THEN replay(32)
            ELSE UNCHANGED <<q_network, epsilon>>
         /\ IF Len(memory') % 100 = 0
            THEN update_target_network
            ELSE UNCHANGED target_network
         /\ learnt' = learnt_by_now

\* _simulate_action_for_learning.  Every call is stamped datetime.now(); the
\* calls of one run fall on one day, day 0.
simulate_action_for_learning(coin, action, confidence, features) ==
    IF coin.price = Zero
    THEN UNCHANGED <<envVars, ret, memory, remember_calls, q_network, epsilon,
                     target_network, learnt>>
    ELSE /\ step(TradingAction(0, coin.symbol, ActionNames[action + 1],
                               confidence, coin.price,
                               Get(features, "gem_score", 0)))
         /\ learn_from_step(get_state(current_step, current_balance,
                                      positions),
                            action)

NotAnalyzed == [called |-> FALSE, coin |-> <<>>, base |-> NoAnalysis,
                raised |-> FALSE, result |-> NoAnalysis]

\* analyze_coin_with_rl from the agent's decision on; learning_enabled is
\* True in every detector the application builds.
decided_analysis(coin, base_analysis, features, decision) ==
    /\ acted' = [called |-> TRUE, features |-> features,
                 action |-> decision[1], confidence |-> decision[2]]
    /\ simulate_action_for_learning(coin, decision[1], decision[2], features)
    /\ analysis' =
          IF coin.price # Zero /\ ret'.raised
          THEN [called |-> TRUE, coin |-> coin, base |-> base_analysis,
                raised |-> TRUE, result |-> NoAnalysis]
          ELSE [called |-> TRUE, coin |-> coin, base |-> base_analysis,
                raised |-> FALSE,
                result |-> enhanced_analysis(base_analysis, decision)]

analyze_coin_with_rl(coin, model_loaded, random, randrange, q_choice) ==
    IF extract_raises(coin)
    THEN /\ analysis' = [called |-> TRUE, coin |-> coin,
                         base |-> predict_hidden_gem(coin, model_loaded),
                         raised |-> TRUE, result |-> NoAnalysis]
         /\ UNCHANGED <<envVars, ret, memory, remember_calls, q_network,
                        epsilon, target_network, acted, learnt>>
    ELSE decided_analysis(coin, predict_hidden_gem(coin, model_loaded),
                          extract_advanced_features(coin),
                          act(extract_advanced_features(coin), random,
                              randrange, q_choice))

\* What the last call of the recorder or of the persistence was given and
\* what it returned, and how many such calls there have been.
NotCalled ==
    [op |-> "none", args |-> <<>>, raised |-> FALSE, result |-> <<>>,
     count |-> 0]
Called(op, args, raised, result) ==
    [op |-> op, args |-> args, raised |-> raised, result |-> result,
     count |-> call.count + 1]

\* No request thread has started, and no pure function has been evaluated.
NoThreads == <<>>
NotCalculated == [function |-> "none", args |-> <<>>, result |-> <<>>]

\* learn_from_real_outcome, line 571.
outcome_profit_loss_percent(entry_price, current_price) ==
    QMul(QDiv(QSub(current_price, entry_price), entry_price), Q(100, 1))

\* learn_from_real_outcome, lines 574-576.
actual_reward(percent, days_held) ==
    LET time_factor ==
            QMax(Q(1, 2), QSub(One, QMul(Q(days_held, 365), Q(1, 2))))
        base_reward == Tanh(QDiv(percent, Q(50, 1)))
    IN  QMul(base_reward, time_factor)

\* learn_from_real_outcome, lines 582-588; the outcomes of one run are
\* stamped day 0.
outcome(symbol, entry_price, current_price, days_held) ==
    [symbol |-> symbol,
     profit_loss_percent |->
        outcome_profit_loss_percent(entry_price, current_price),
     days_held |-> days_held,
     reward |->
        actual_reward(outcome_profit_loss_percent(entry_price, current_price),
                      days_held),
     timestamp |-> 0]

\* A faulty recording, to test the properties against: the outcome is
\* entered twice.
append_outcome_twice(history, item) == Append(Append(history, item), item)

\* learn_from_real_outcome, line 589.
append_outcome(history, item) == Append(history, item)

\* RLGemDetector.learn_from_real_outcome.  The division by an entry price of
\* 0 raises ZeroDivisionError before anything is recorded.
learn_from_real_outcome(symbol, entry_price, current_price, days_held, initial_features) ==
    LET args == [symbol |-> symbol, entry_price |-> entry_price,
                 current_price |-> current_price, days_held |-> days_held,
                 initial_features |-> initial_features]
    IN  IF entry_price = Zero
        THEN /\ call' = Called("learn_from_real_outcome", args, TRUE, <<>>)
             /\ UNCHANGED performance_history
        ELSE /\ performance_history' =
                    append_outcome(performance_history,
                                   outcome(symbol, entry_price, current_price,
                                           days_held))
             /\ call' = Called("learn_from_real_outcome", args, FALSE,
                             [reward |->
                                outcome(symbol, entry_price, current_price,
                                        days_held).reward])

\* RLLiveTrading.record_trade_outcome; days_held is the whole days since
\* entry_date.  The call of learn_from_real_outcome is given no features,
\* and what it raises is passed on.
record_trade_outcome(symbol, entry_price, current_price, days_held) ==
    LET args == [symbol |-> symbol, entry_price |-> entry_price,
                 current_price |-> current_price, days_held |-> days_held,
                 initial_features |-> <<>>]
        learned == outcome(symbol, entry_price, current_price, days_held)
        trade_record ==
            [symbol |-> symbol, entry_price |-> entry_price,
             exit_price |-> current_price,
             profit_loss_percent |->
                outcome_profit_loss_percent(entry_price, current_price),
             days_held |-> days_held, reward |-> learned.reward,
             timestamp |-> 0]
    IN  IF entry_price = Zero
        THEN /\ call' = Called("record_trade_outcome", args, TRUE, <<>>)
             /\ UNCHANGED <<performance_history, trade_log>>
        ELSE /\ performance_history' =
                    append_outcome(performance_history, learned)
             /\ trade_log' = Append(trade_log, trade_record)
             /\ call' = Called("record_trade_outcome", args, FALSE,
                             trade_record)

\* The model's path on disk: the pickled bundle (readable or not) and the
\* network file next to it, which is missing, unloadable, or holds the
\* weights of a q-network after so many gradient steps.
NoFile == <<>>
NoNetworkFile == -3
CorruptNetworkFile == -4

\* RLGemDetector.save_model: the bundle is pickled and, with torch, the
\* q-network's weights are written next to it; without torch the network
\* file stays as it was.
save_model ==
    /\ model_file' =
          [readable |-> TRUE,
           model_data |->
              [performance_history |-> performance_history,
               learning_episodes |-> learning_episodes,
               agent_epsilon |-> epsilon,
               environment_balance |-> current_balance],
           network |->
              IF torch_available /\ q_network # None THEN q_network
              ELSE IF model_file = NoFile THEN NoNetworkFile
                   ELSE model_file.network]
    /\ call' = Called("save_model", <<>>, FALSE, <<>>)

\* load_model, lines 646-650, once the four fields are overwritten: the
\* network file, when there is one, is loaded into the q-network and copied
\* to the target network.  A file torch cannot load raises, and the handler
\* of line 655 returns False.
load_network(file) ==
    IF torch_available /\ q_network # None /\ file.network # NoNetworkFile
    THEN IF file.network = CorruptNetworkFile
         THEN /\ UNCHANGED <<q_network, target_network>>
              /\ call' = Called("load_model", file, FALSE, [ok |-> FALSE])
         ELSE /\ q_network' = file.network
              /\ update_target_network
              /\ call' = Called("load_model", file, FALSE, [ok |-> TRUE])
    ELSE /\ UNCHANGED <<q_network, target_network>>
         /\ call' = Called("load_model", file, FALSE, [ok |-> TRUE])

\* RLGemDetector.load_model.  A bundle that cannot be opened or unpickled
\* raises before any field is assigned; every exception is caught and turned
\* into the result False.
load_model(file) ==
    IF ~file.readable
    THEN /\ call' = Called("load_model", file, FALSE, [ok |-> FALSE])
         /\ UNCHANGED <<performance_history, learning_episodes, epsilon,
                        current_balance, q_network, target_network>>
    ELSE /\ performance_history' =
                Get(file.model_data, "performance_history", <<>>)
         /\ learning_episodes' = Get(file.model_data, "learning_episodes", 0)
         /\ epsilon' = Get(file.model_data, "agent_epsilon", One)
         /\ current_balance' =
                Get(file.model_data, "environment_balance", Q(10000, 1))
         /\ load_network(file)

(***************************************************************************)
(* RLLiveTrading                                                           *)
(***************************************************************************)
\* _assess_risk: the score starts at 0.5 and grows with each risk factor
\* found; market_cap and volume_24h count as 0 when the coin has none, and
\* so does the analysis's gem_score.
assess_risk(an, coin_data) ==
    LET market_cap == Get(coin_data, "market_cap", 0)
        volume_24h == Get(coin_data, "volume_24h", 0)
        cap_factors ==
            IF market_cap < 10000000 THEN <<"Very low market cap">>
            ELSE IF market_cap < 100000000 THEN <<"Low market cap">>
                 ELSE <<>>
        cap_risk ==
            IF market_cap < 10000000 THEN Q(2, 10)
            ELSE IF market_cap < 100000000 THEN Q(1, 10)
                 ELSE Zero
        low_volume == volume_24h < 100000
        low_confidence == QLt(an.rl_confidence, Q(1, 2))
        low_gem_score == QLt(Get(an, "gem_score", Zero), Q(50, 1))
        risk_score ==
            QAdd(QAdd(QAdd(QAdd(Q(1, 2), cap_risk),
                           IF low_volume THEN Q(15, 100) ELSE Zero),
                      IF low_confidence THEN Q(1, 10) ELSE Zero),
                 IF low_gem_score THEN Q(1, 10) ELSE Zero)
    IN  [risk_score |-> QMin(One, risk_score),
         risk_level |->
            IF QLt(Q(7, 10), risk_score) THEN "High"
            ELSE IF QLt(Q(4, 10), risk_score) THEN "Medium"
                 ELSE "Low",
         risk_factors |->
            cap_factors
            \o (IF low_volume THEN <<"Low liquidity">> ELSE <<>>)
            \o (IF low_confidence THEN <<"Low RL confidence">> ELSE <<>>)
            \o (IF low_gem_score THEN <<"Low gem score">> ELSE <<>>)]

(***************************************************************************)
(* The inputs the environment is driven with.                              *)
(***************************************************************************)
MaxStep == 3

Symbols == {"BTC", "ETH"}
BuyPrices == {Q(1, 1), Q(20, 1)}
SellPrices == {Q(1, 1), Q(22, 1)}
BuyConfidences == {Q(1, 20), Q(1, 10), Q(4, 5)}
SellConfidences == {Q(1, 5), Q(4, 5)}
GemScores == {40, 50, 60, 80, 90}

\* A hold reads nothing but the gem score.  Buys are stamped day 0, further
\* buys at price 20 day 5 as well, and sells day 10.
HoldActions ==
    {TradingAction(0, "BTC", "hold", Q(1, 2), Q(20, 1), g) : g \in GemScores}
BuyActions ==
    {TradingAction(0, s, "buy", c, p, 90) :
        s \in Symbols, c \in BuyConfidences, p \in BuyPrices}
    \cup {TradingAction(5, s, "buy", Q(4, 5), Q(20, 1), 90) : s \in Symbols}
SellActions ==
    {TradingAction(10, s, "sell", c, p, 90) :
        s \in Symbols, c \in SellConfidences, p \in SellPrices}

\* RLLiveTrading.__init__ builds the detector and, when a saved bundle
\* exists, loads it: load_model overwrites the agent's epsilon and the
\* environment's balance with the bundle's and leaves initial_balance as
\* constructed.  A detector built without a bundle keeps the constructors'
\* values.
NoBundle == [epsilon |-> One, current_balance |-> InitialBalance]
SavedBundles == {[epsilon |-> Q(9, 10), current_balance |-> Q(1900, 1)]}

\* The draws of the random number generators (np.random.random() is in
\* [0, 1)), and what a network can answer.
RandomDraws == {Q(0, 1), Q(1, 2), Q(999, 1000)}
ActionIndexes == 0..2
QChoices == {<<1, Q(9, 10)>>, <<2, Q(3, 5)>>}

\* Feature dictionaries given to DQNAgent.act.
ActFeatures ==
    {[gem_score |-> 90, fear_opportunity_score |-> Q(9, 10),
      volume_surge_anomaly |-> Q(9, 10)],
     [gem_score |-> 60, fear_opportunity_score |-> Q(1, 2),
      volume_surge_anomaly |-> Q(3, 10)],
     [fear_opportunity_score |-> Q(1, 10), volume_surge_anomaly |-> Q(3, 10)]}

NotActed == [called |-> FALSE, features |-> <<>>, action |-> 0,
             confidence |-> Zero]

\* rl_train has not been requested, and no detector stands beside the one
\* of the variables.
NotTraining == [pc |-> "idle"]
NoDetector == <<>>

\* The state after construction: DQNAgent.__init__ builds the networks only
\* when torch was imported.
InitAgent ==
    /\ torch_available \in BOOLEAN
    /\ memory = <<>>
    /\ q_network = IF torch_available THEN 0 ELSE None
    /\ target_network = IF torch_available THEN OwnInitialWeights ELSE None
    /\ remember_calls = 0
    /\ acted = NotActed
    /\ learning_episodes = 0
    /\ analysis = NotAnalyzed
    /\ performance_history = <<>>
    /\ trade_log = <<>>
    /\ model_file = NoFile
    /\ call = NotCalled
    /\ threads = NoThreads
    /\ calc = NotCalculated
    /\ learnt = NotLearnt
    /\ training = NotTraining

Init ==
    /\ \E bundle \in {NoBundle} \cup SavedBundles :
          /\ current_balance = bundle.current_balance
          /\ epsilon = bundle.epsilon
    /\ positions = EmptyPositions
    /\ trade_history = <<>>
    /\ current_step = 0
    /\ ret = [op |-> "init", action |-> NoAction, raised |-> FALSE,
              reward |-> Zero, done |-> FALSE]
    /\ InitAgent
    /\ live = NoDetector

\* A call of CryptoTradingEnvironment.step.
Step ==
    /\ current_step < MaxStep
    /\ \E action \in HoldActions \cup BuyActions \cup SellActions : step(action)
    /\ UNCHANGED <<agentVars, detectorVars>>

Next == Step

Spec == Init /\ [][Next]_vars

(***************************************************************************)
(* Whole episodes: the environment is stepped up to and past the time      *)
(* limit and reset at any time.  A position is opened only while none is   *)
(* open and fewer than MaxEpisodeTrades positions have been closed.        *)
(***************************************************************************)
MaxEpisodeStep == 1001
MaxEpisodeTrades == 1

QuietActions ==
    {TradingAction(0, "BTC", "hold", Q(1, 2), Q(20, 1), 60),
     TradingAction(0, "BTC", "buy", Q(1, 20), Q(20, 1), 90),
     TradingAction(10, "ETH", "sell", Q(4, 5), Q(22, 1), 90)}
OpeningActions == {TradingAction(0, "BTC", "buy", Q(4, 5), Q(1, 1), 90)}
ClosingActions ==
    {TradingAction(10, "BTC", "sell", Q(4, 5), p, 90) : p \in SellPrices}

InitEpisode == Init /\ ~torch_available

EpisodeStep ==
    /\ current_step < MaxEpisodeStep
    /\ \/ \E action \in QuietActions : step(action)
       \/ /\ positions = EmptyPositions
          /\ Len(trade_history) < MaxEpisodeTrades
          /\ \E action \in OpeningActions : step(action)
       \/ /\ positions # EmptyPositions
          /\ \E action \in ClosingActions : step(action)
    /\ UNCHANGED <<agentVars, detectorVars>>

Reset ==
    /\ reset
    /\ UNCHANGED <<agentVars, detectorVars>>

NextEpisode == EpisodeStep \/ Reset

SpecEpisode == InitEpisode /\ [][NextEpisode]_vars

(***************************************************************************)
(* The replay buffer on its own: remember is called again and again, one   *)
(* call at a time or, as when a back-test analyses one record after the    *)
(* other, RunLength calls in a row.  The n-th call, counting from 0, is    *)
(* given the state n and the next state n + 1.                             *)
(***************************************************************************)
MaxRemember == 10002
RunLength == 2500

Transition(n) == <<n, 0, Q(-2, 100), n + 1, FALSE>>

\* The memory after the n calls first, first + 1, ... : the first half of
\* them, then the rest.  (Taking the length of the first half has it
\* evaluated before the rest is begun.)
RECURSIVE AfterRemembering(_, _, _)
AfterRemembering(deque, first, n) ==
    IF n = 0 THEN deque
    ELSE IF n = 1 THEN DequeAppend(deque, Transition(first))
    ELSE LET half == n \div 2
             first_half == AfterRemembering(deque, first, half)
         IN  IF Len(first_half) >= 0
             THEN AfterRemembering(first_half, first + half, n - half)
             ELSE first_half

Remember ==
    /\ remember_calls < MaxRemember
    /\ \E action \in {0} :
          remember(remember_calls, action, Q(-2, 100), remember_calls + 1, FALSE)
    /\ UNCHANGED <<envVars, ret, torch_available, epsilon, q_network,
                   target_network, detectorVars>>

RememberRun ==
    /\ remember_calls % RunLength = 0
    /\ remember_calls + RunLength <= MaxRemember
    /\ memory' = AfterRemembering(memory, remember_calls, RunLength)
    /\ remember_calls' = remember_calls + RunLength
    /\ UNCHANGED <<envVars, ret, torch_available, epsilon, q_network,
                   target_network, detectorVars>>

InitStore == Init /\ epsilon = One /\ ~torch_available

NextStore == Remember \/ RememberRun

SpecStore == InitStore /\ [][NextStore]_vars

(***************************************************************************)
(* The detector at work: coins are analysed, and the agent is asked to     *)
(* act, to replay and to sync its target network through its own methods. *)
(***************************************************************************)
MaxExperience == 1
MaxTrain == 2

CoinData ==
    {[symbol |-> "BTC", price |-> p, price_change_24h |-> c,
      fear_opportunity_score |-> f[1], volume_surge_anomaly |-> f[2]] :
        p \in {Q(-20, 1), Zero, Q(20, 1)},
        c \in {"absent", "dict", "number"},
        f \in {<<Q(9, 10), Q(9, 10)>>}}

BatchSizes == {1, 32}

Act ==
    /\ \E coin_features \in ActFeatures, random \in RandomDraws,
          randrange \in ActionIndexes, q_choice \in QChoices :
          acted' = [called |-> TRUE, features |-> coin_features,
                    action |-> act(coin_features, random, randrange,
                                   q_choice)[1],
                    confidence |-> act(coin_features, random, randrange,
                                       q_choice)[2]]
    /\ UNCHANGED <<envVars, ret, agentVars, learning_episodes, analysis,
                   performance_history, trade_log, model_file, call, threads,
                   calc, learnt, training, live>>

Analyze ==
    /\ remember_calls < MaxExperience
    /\ \E coin \in CoinData, model_loaded \in BOOLEAN, random \in RandomDraws,
          randrange \in ActionIndexes, q_choice \in QChoices :
          analyze_coin_with_rl(coin, model_loaded, random, randrange, q_choice)
    /\ UNCHANGED <<torch_available, learning_episodes, performance_history,
                   trade_log, model_file, call, threads, calc, training,
                   live>>

Replay ==
    /\ q_network < MaxTrain
    /\ UNCHANGED memory
    /\ \E batch_size \in BatchSizes : replay(batch_size)
    /\ UNCHANGED <<envVars, ret, torch_available, target_network,
                   remember_calls, detectorVars>>

UpdateTarget ==
    /\ UNCHANGED q_network
    /\ update_target_network
    /\ UNCHANGED <<envVars, ret, torch_available, memory, epsilon,
                   remember_calls, detectorVars>>

NextAgent == Act \/ Analyze \/ Replay \/ UpdateTarget

SpecAgent == Init /\ [][NextAgent]_vars

(***************************************************************************)
(* The detector in service: besides gathering experience and training,    *)
(* it is told the outcomes of real trades, through RLLiveTrading or, by a  *)
(* back-test, directly, and its model is saved and loaded.                 *)
(***************************************************************************)
MaxCalls == 2

\* What 918 training replays leave of an epsilon of 1.0: 0.995^918 =
\* 0.0100366..., the one power of the decay rate between epsilon_min and
\* epsilon_min / 0.995.
NearFloorEpsilon == Q(10037, 1000000)

\* Model files other runs have left at the path: an unreadable one, a
\* bundle without any of the four keys, and the bundle of a long training
\* run with no, an unloadable and a loadable network file next to it.
LongRunData ==
    [performance_history |-> <<>>, learning_episodes |-> 0,
     agent_epsilon |-> NearFloorEpsilon,
     environment_balance |-> Q(9500, 1)]
ModelFiles ==
    {[readable |-> FALSE, model_data |-> <<>>, network |-> NoNetworkFile],
     [readable |-> TRUE, model_data |-> <<>>, network |-> NoNetworkFile]}
    \cup {[readable |-> TRUE, model_data |-> LongRunData, network |-> n] :
            n \in {NoNetworkFile, CorruptNetworkFile, 1}}

\* Real trades: the prices a position was entered and left at, and the days
\* it was held.  A back-test reports only trades entered at a positive
\* price, with the analysis that recommended the buy.
EntryPrices == {Zero, Q(20, 1)}
ExitPrices == {Q(10, 1), Q(22, 1)}
DaysHeld == {30, 400}
BuyAnalyses ==
    {[rl_recommendation |-> "buy", rl_confidence |-> c] :
        c \in {Q(13, 20), Q(4, 5)}}

RecordTradeOutcome ==
    /\ call.count < MaxCalls
    /\ \E entry_price \in EntryPrices, current_price \in ExitPrices,
          days_held \in DaysHeld :
          record_trade_outcome("BTC", entry_price, current_price, days_held)
    /\ UNCHANGED <<envVars, ret, agentVars, acted, learning_episodes,
                   analysis, model_file, threads, calc,
                   learnt, training, live>>

LearnFromRealOutcome ==
    /\ call.count < MaxCalls
    /\ \E entry_price \in EntryPrices \ {Zero}, current_price \in ExitPrices,
          days_held \in DaysHeld, initial_features \in BuyAnalyses :
          learn_from_real_outcome("BTC", entry_price, current_price,
                                  days_held, initial_features)
    /\ UNCHANGED <<envVars, ret, agentVars, acted, learning_episodes,
                   analysis, trade_log, model_file, threads, calc,
                   learnt, training, live>>

SaveModel ==
    /\ call.count < MaxCalls
    /\ save_model
    /\ UNCHANGED <<envVars, ret, agentVars, acted, learning_episodes,
                   analysis, performance_history, trade_log, threads, calc,
                   learnt, training, live>>

LoadModel ==
    /\ call.count < MaxCalls
    /\ \E file \in (ModelFiles \cup {model_file}) \ {NoFile} :
          load_model(file)
    /\ UNCHANGED <<positions, trade_history, current_step, ret,
                   torch_available, memory, remember_calls, acted, analysis,
                   trade_log, model_file, threads, calc,
                   learnt, training, live>>

\* One experience is put into the agent's memory.
Experience ==
    /\ remember_calls < MaxExperience
    /\ Remember

NextService ==
    \/ Experience
    \/ Replay
    \/ UpdateTarget
    \/ RecordTradeOutcome
    \/ LearnFromRealOutcome
    \/ SaveModel
    \/ LoadModel

SpecService == Init /\ [][NextService]_vars

(***************************************************************************)
(* The pure functions on their own: the close reward and the heuristic     *)
(* fallback are evaluated on inputs drawn from the sets below.             *)
(***************************************************************************)
MaxProfitLoss == 6

\* Profits and losses from -300% to +300% in steps of 50, holding periods
\* up to and beyond the year at which the time factor reaches its floor,
\* and confidences on and about the thresholds of the bonus.
ProfitLossPercents == {Q(50 * k, 1) : k \in -MaxProfitLoss..MaxProfitLoss}
HoldingDays == {0, 30, 365, 730, 10000}
Confidences == {Zero, Q(3, 10), Q(7, 10), One}

\* Feature dictionaries with any of the three fields the fallback reads
\* missing, the gem score in 0..100 and the two scores in [0, 1].
FeatureKeys == {"gem_score", "fear_opportunity_score", "volume_surge_anomaly"}
HeuristicFeatures ==
    {[k \in keys |->
        IF k = "gem_score" THEN g
        ELSE IF k = "fear_opportunity_score" THEN f ELSE v] :
        keys \in SUBSET FeatureKeys,
        g \in {0, 30, 70, 100},
        f \in {Zero, Q(3, 10), Q(7, 10), One},
        v \in {Zero, Q(3, 10), Q(7, 10), One}}

CalculateSellReward ==
    /\ \E profit_loss \in ProfitLossPercents, holding_days \in HoldingDays,
          confidence \in Confidences :
          calc' = [function |-> "_calculate_sell_reward",
                   args |-> <<profit_loss, holding_days, confidence>>,
                   result |-> calculate_sell_reward(profit_loss, holding_days,
                                                    confidence)]
    /\ UNCHANGED <<envVars, ret, agentVars, acted, learning_episodes,
                   analysis, performance_history, trade_log, model_file, call,
                   threads, learnt, training, live>>

HeuristicAction ==
    /\ \E coin_features \in HeuristicFeatures :
          calc' = [function |-> "_heuristic_action", args |-> coin_features,
                   result |-> heuristic_action(coin_features)]
    /\ UNCHANGED <<envVars, ret, agentVars, acted, learning_episodes,
                   analysis, performance_history, trade_log, model_file, call,
                   threads, learnt, training, live>>

\* Coins on every side of the market-cap and volume thresholds, and
\* analyses on every side of the confidence and gem-score thresholds.
RiskCoins ==
    {[k \in keys |-> IF k = "market_cap" THEN c ELSE v] :
        keys \in SUBSET {"market_cap", "volume_24h"},
        c \in {5000000, 50000000, 500000000},
        v \in {50000, 1000000}}
RiskAnalyses ==
    {[k \in keys |-> IF k = "rl_confidence" THEN c ELSE g] :
        keys \in {{"rl_confidence"}, {"rl_confidence", "gem_score"}},
        c \in {Q(3, 10), Q(1, 2), Q(9, 10)},
        g \in {Q(40, 1), Q(50, 1), Q(90, 1)}}

AssessRisk ==
    /\ \E an \in RiskAnalyses, coin_data \in RiskCoins :
          calc' = [function |-> "_assess_risk",
                   args |-> [analysis |-> an, coin_data |-> coin_data],
                   result |-> assess_risk(an, coin_data)]
    /\ UNCHANGED <<envVars, ret, agentVars, acted, learning_episodes,
                   analysis, performance_history, trade_log, model_file, call,
                   threads, learnt, training, live>>

NextCalc == CalculateSellReward \/ HeuristicAction \/ AssessRisk

InitCalc == Init /\ epsilon = One /\ ~torch_available

SpecCalc == InitCalc /\ [][NextCalc]_vars

(***************************************************************************)
(* Concurrent requests.  gunicorn runs each worker with gthread threads,   *)
(* and every request thread of a worker calls analyze_coin_with_rl on the  *)
(* one detector app.py keeps in the global rl_detector; no lock guards it. *)
(* A thread whose agent decided to buy runs _simulate_action_for_learning  *)
(* one Python statement at a time, and the other threads run between any   *)
(* two of its statements.  What a thread keeps in local variables is in    *)
(* its entry of threads.                                                   *)
(***************************************************************************)
\* gunicorn.conf.py: threads = 2
worker_threads == 2
ThreadIds == 1..worker_threads

\* The buys the agent decides on: an exploring and a confident one, at two
\* prices.  extract_advanced_features gives no gem_score, so it counts as 0.
DecidedBuys ==
    {TradingAction(0, "BTC", "buy", c, p, 0) :
        c \in {Q(1, 2), Q(9, 10)}, p \in {Q(20, 1), Q(25, 1)}}

Started(t) == t \in DOMAIN threads
At(t, pc) == Started(t) /\ threads[t].pc = pc
Goto(t, pc, changes) ==
    threads' = PutKey(threads, t, Update(threads[t], Update(changes, [pc |-> pc])))
Nothing == [x \in {} |-> 0]

\* _simulate_action_for_learning, lines 541-552: the action is built and
\* the state before the step is read.
Begin(t) ==
    /\ ~Started(t)
    /\ \E action \in DecidedBuys :
          threads' =
             PutKey(threads, t,
                    [pc |-> "sizing", action |-> action,
                     state |-> get_state(current_step, current_balance,
                                         positions)])
    /\ UNCHANGED <<envVars, ret, agentVars, acted, learning_episodes,
                   analysis, performance_history, trade_log, model_file, call,
                   calc, learnt, training, live>>

\* _execute_buy, lines 123-124.
Size(t) ==
    /\ At(t, "sizing")
    /\ Goto(t, "checking_minimum",
            [position_value |->
                QMul(current_balance, risk_percent(threads[t].action))])
    /\ UNCHANGED <<envVars, ret, agentVars, acted, learning_episodes,
                   analysis, performance_history, trade_log, model_file, call,
                   calc, learnt, training, live>>

\* _execute_buy, lines 126-129.
CheckMinimum(t) ==
    /\ At(t, "checking_minimum")
    /\ IF below_minimum(threads[t].position_value)
       THEN Goto(t, "counting", [reward |-> Q(-1, 10)])
       ELSE Goto(t, "checking_position",
                 [quantity |-> QDiv(threads[t].position_value,
                                    threads[t].action.price)])
    /\ UNCHANGED <<envVars, ret, agentVars, acted, learning_episodes,
                   analysis, performance_history, trade_log, model_file, call,
                   calc, learnt, training, live>>

\* _execute_buy, line 132.
CheckPosition(t) ==
    /\ At(t, "checking_position")
    /\ IF threads[t].action.symbol \in DOMAIN positions
       THEN Goto(t, "reading_position", Nothing)
       ELSE Goto(t, "opening", Nothing)
    /\ UNCHANGED <<envVars, ret, agentVars, acted, learning_episodes,
                   analysis, performance_history, trade_log, model_file, call,
                   calc, learnt, training, live>>

\* _execute_buy, line 135.
ReadPosition(t) ==
    /\ At(t, "reading_position")
    /\ Goto(t, "merging",
            [existing |-> positions[threads[t].action.symbol]])
    /\ UNCHANGED <<envVars, ret, agentVars, acted, learning_episodes,
                   analysis, performance_history, trade_log, model_file, call,
                   calc, learnt, training, live>>

\* _execute_buy, lines 136-143.
Merge(t) ==
    /\ At(t, "merging")
    /\ positions' =
          PutKey(positions, threads[t].action.symbol,
                 merge_position(threads[t].existing, threads[t].quantity,
                                threads[t].action))
    /\ Goto(t, "paying", Nothing)
    /\ UNCHANGED <<current_balance, trade_history, current_step, ret,
                   agentVars, acted, learning_episodes, analysis,
                   performance_history, trade_log, model_file, call, calc,
                   learnt, training, live>>

\* _execute_buy, lines 145-149.
Open(t) ==
    /\ At(t, "opening")
    /\ positions' =
          PutKey(positions, threads[t].action.symbol,
                 new_position(threads[t].quantity, threads[t].action))
    /\ Goto(t, "paying", Nothing)
    /\ UNCHANGED <<current_balance, trade_history, current_step, ret,
                   agentVars, acted, learning_episodes, analysis,
                   performance_history, trade_log, model_file, call, calc,
                   learnt, training, live>>

\* _execute_buy, lines 151-155.
Pay(t) ==
    /\ At(t, "paying")
    /\ current_balance' = QSub(current_balance, threads[t].position_value)
    /\ Goto(t, "counting", [reward |-> immediate_reward(threads[t].action)])
    /\ UNCHANGED <<positions, trade_history, current_step, ret, agentVars,
                   acted, learning_episodes, analysis, performance_history,
                   trade_log, model_file, call, calc, learnt, training, live>>

\* step, line 97.
Count(t) ==
    /\ At(t, "counting")
    /\ current_step' = current_step + 1
    /\ Goto(t, "observing", Nothing)
    /\ UNCHANGED <<current_balance, positions, trade_history, ret, agentVars,
                   acted, learning_episodes, analysis, performance_history,
                   trade_log, model_file, call, calc, learnt, training, live>>

\* step, lines 99-107.
Observe(t) ==
    /\ At(t, "observing")
    /\ Goto(t, "remembering",
            [next_state |-> get_state(current_step, current_balance,
                                      positions),
             done |-> is_episode_done(current_step, current_balance,
                                      positions)])
    /\ UNCHANGED <<envVars, ret, agentVars, acted, learning_episodes,
                   analysis, performance_history, trade_log, model_file, call,
                   calc, learnt, training, live>>

\* _simulate_action_for_learning, lines 556-564.
Learn(t) ==
    /\ At(t, "remembering")
    /\ remember(threads[t].state, 1, threads[t].reward, threads[t].next_state,
                threads[t].done)
    /\ IF Len(memory') > 100 /\ Len(memory') % 10 = 0
       THEN replay(32)
       ELSE UNCHANGED <<q_network, epsilon>>
    /\ IF Len(memory') % 100 = 0
       THEN update_target_network
       ELSE UNCHANGED target_network
    /\ learnt' = learnt_by_now
    /\ Goto(t, "returned", Nothing)
    /\ UNCHANGED <<envVars, ret, torch_available, acted, learning_episodes,
                   analysis, performance_history, trade_log, model_file, call,
                   calc, training, live>>

\* What one whole call does to the environment and the memory when no
\* other thread runs during it.
Alone(s, action) ==
    LET position_value == QMul(s.balance, risk_percent(action))
        refused == QLt(position_value, QMul(s.balance, Q(1, 100)))
        quantity == QDiv(position_value, action.price)
        bought ==
            PutKey(s.positions, action.symbol,
                   IF action.symbol \in DOMAIN s.positions
                   THEN merge_position(s.positions[action.symbol], quantity,
                                       action)
                   ELSE new_position(quantity, action))
        balance == IF refused THEN s.balance
                   ELSE QSub(s.balance, position_value)
        pos == IF refused THEN s.positions ELSE bought
        reward == IF refused THEN Q(-1, 10) ELSE immediate_reward(action)
    IN  [balance |-> balance, positions |-> pos, step |-> s.step + 1,
         memory |->
            DequeAppend(s.memory,
                        <<get_state(s.step, s.balance, s.positions), 1,
                          reward, get_state(s.step + 1, balance, pos),
                          is_episode_done(s.step + 1, balance, pos)>>)]

InitConcurrent == Init /\ epsilon = One /\ ~torch_available

NextConcurrent ==
    \E t \in ThreadIds :
        \/ Begin(t)
        \/ Size(t)
        \/ CheckMinimum(t)
        \/ CheckPosition(t)
        \/ ReadPosition(t)
        \/ Merge(t)
        \/ Open(t)
        \/ Pay(t)
        \/ Count(t)
        \/ Observe(t)
        \/ Learn(t)

SpecConcurrent == InitConcurrent /\ [][NextConcurrent]_vars

(***************************************************************************)
(* A detector left running.  A detector that loaded the model of a long   *)
(* run (epsilon is below its floor and decays no more) analyses one coin  *)
(* again and again, one call at a time or AnalysesInARun calls in a row.  *)
(* The agent explores and draws hold each time.  Nothing in the           *)
(* application calls CryptoTradingEnvironment.reset.                      *)
(***************************************************************************)
MaxAnalyses == 10002
AnalysesInARun == 1000
MaxSingles == 120

LongRunEpsilon == QMul(NearFloorEpsilon, epsilon_decay)

QuietCoin ==
    [symbol |-> "BTC", price |-> Q(20, 1), price_change_24h |-> "dict",
     fear_opportunity_score |-> Q(1, 2), volume_surge_anomaly |-> Q(1, 2)]

\* The action _simulate_action_for_learning builds for a hold of QuietCoin
\* drawn while exploring.
QuietHold ==
    TradingAction(0, QuietCoin.symbol, "hold", Q(1, 2), QuietCoin.price,
                  Get(extract_advanced_features(QuietCoin), "gem_score", 0))

\* What lines 553-556 remember of the hold made at step n.
QuietTransition(n) ==
    <<get_state(n, current_balance, positions), 0,
      calculate_hold_reward(QuietHold),
      get_state(n + 1, current_balance, positions),
      is_episode_done(n + 1, current_balance, positions)>>

\* The memory after the holds of the steps first, first + 1, ... : the
\* first half of them, then the rest.
RECURSIVE AfterQuietRun(_, _, _)
AfterQuietRun(deque, first, n) ==
    IF n = 0 THEN deque
    ELSE IF n = 1 THEN DequeAppend(deque, QuietTransition(first))
    ELSE LET half == n \div 2
             first_half == AfterQuietRun(deque, first, half)
         IN  IF Len(first_half) >= 0
             THEN AfterQuietRun(first_half, first + half, n - half)
             ELSE first_half

\* len(self.agent.memory) after the j-th remember from now.
LengthAfter(j) ==
    IF Len(memory) + j < maxlen THEN Len(memory) + j ELSE maxlen

\* Among the next n calls, those in which line 558 calls replay and those
\* in which line 562 calls update_target_network.
ReplaysIn(n) ==
    {j \in 1..n : LengthAfter(j) > 100 /\ LengthAfter(j) % 10 = 0}
SyncsIn(n) == {j \in 1..n : LengthAfter(j) % 100 = 0}
Last(calls) == CHOOSE j \in calls : \A k \in calls : k <= j

InitRun ==
    /\ current_balance = InitialBalance
    /\ epsilon = LongRunEpsilon
    /\ positions = EmptyPositions
    /\ trade_history = <<>>
    /\ current_step = 0
    /\ ret = [op |-> "init", action |-> NoAction, raised |-> FALSE,
              reward |-> Zero, done |-> FALSE]
    /\ InitAgent
    /\ live = NoDetector
    /\ torch_available

\* One call of analyze_coin_with_rl.
AnalyzeAgain ==
    /\ remember_calls < MaxAnalyses
    /\ remember_calls % AnalysesInARun < MaxSingles
    /\ analyze_coin_with_rl(QuietCoin, FALSE, Zero, 0, <<0, One>>)
    /\ UNCHANGED <<torch_available, learning_episodes, performance_history,
                   trade_log, model_file, call, threads, calc, training,
                   live>>

\* AnalysesInARun calls of analyze_coin_with_rl, one after the other.
AnalyzeRun ==
    /\ remember_calls % AnalysesInARun = 0
    /\ remember_calls + AnalysesInARun <= MaxAnalyses
    /\ ~QLt(epsilon_min, epsilon)
    /\ LET n == AnalysesInARun
           replays == ReplaysIn(n)
           syncs == SyncsIn(n)
           trains == torch_available /\ q_network # None
       IN  /\ current_step' = current_step + n
           /\ UNCHANGED <<current_balance, positions, trade_history>>
           /\ ret' = [op |-> "step", action |-> QuietHold,
                      raised |-> FALSE,
                      reward |-> calculate_hold_reward(QuietHold),
                      done |-> is_episode_done(current_step + n,
                                               current_balance, positions)]
           /\ memory' = AfterQuietRun(memory, current_step, n)
           /\ remember_calls' = remember_calls + n
           /\ q_network' = IF trains THEN q_network + Cardinality(replays)
                           ELSE q_network
           /\ UNCHANGED epsilon
           /\ target_network' =
                  IF trains /\ target_network # None /\ syncs # {}
                  THEN q_network
                       + Cardinality({j \in replays : j <= Last(syncs)})
                  ELSE target_network
           /\ learnt' =
                  [replayed_at |-> IF replays = {} THEN learnt.replayed_at
                                   ELSE remember_calls + Last(replays),
                   synced_at |-> IF syncs = {} THEN learnt.synced_at
                                 ELSE remember_calls + Last(syncs)]
           /\ acted' = [called |-> TRUE,
                        features |-> extract_advanced_features(QuietCoin),
                        action |-> 0, confidence |-> Q(1, 2)]
           /\ analysis' =
                  [called |-> TRUE, coin |-> QuietCoin, base |-> NoAnalysis,
                   raised |-> FALSE,
                   result |->
                      Update(enhanced_analysis(NoAnalysis, <<0, Q(1, 2)>>),
                             [agent_experience_level |-> LengthAfter(n - 1)])]
    /\ UNCHANGED <<torch_available, learning_episodes, performance_history,
                   trade_log, model_file, call, threads, calc, training,
                   live>>

NextRun == AnalyzeAgain \/ AnalyzeRun

SpecRun == InitRun /\ [][NextRun]_vars

(***************************************************************************)
(* POST /api/rl/train.  rl_train builds a trainer, whose detector is the   *)
(* detector of the variables as its constructors leave it, has it          *)
(* back-test the records of the CSV file one loop iteration at a time, and *)
(* then saves the application's detector, live.                            *)
(***************************************************************************)
lookback_days == 30

\* backtest_rl_strategy, lines 56-64.
initial_results ==
    [total_trades |-> 0, winning_trades |-> 0, total_return |-> Zero,
     max_drawdown |-> Zero, sharpe_ratio |-> Zero, trades |-> <<>>,
     learning_progress |-> <<>>]

\* list.sort(key=timestamp), line 68: records of equal timestamp keep their
\* order.
sort_by_timestamp(data) ==
    LET place ==
            [k \in 1..Len(data) |->
                1 + Cardinality({j \in 1..Len(data) :
                                   \/ data[j].timestamp < data[k].timestamp
                                   \/ /\ data[j].timestamp = data[k].timestamp
                                      /\ j < k})]
    IN  [p \in 1..Len(data) |->
            data[CHOOSE k \in 1..Len(data) : place[k] = p]]

\* sum and np.mean of a list of floats.
RECURSIVE QSum(_)
QSum(values) ==
    IF values = <<>> THEN Zero ELSE QAdd(Head(values), QSum(Tail(values)))
mean(values) == QDiv(QSum(values), Q(Len(values), 1))

\* np.std of one value and of two values; a back-test of up to
\* lookback_days + 2 records makes no more than two trades.
std(values) ==
    CASE Len(values) = 1 -> Zero
      [] Len(values) = 2 ->
            QDiv(QMax(QSub(values[1], values[2]), QSub(values[2], values[1])),
                 Q(2, 1))

\* backtest_rl_strategy, lines 133-137: the largest fall of the cumulative
\* return below its running peak.
RECURSIVE max_drawdown_from(_, _, _, _, _)
max_drawdown_from(returns, k, cumulative, peak, worst) ==
    IF k > Len(returns) THEN worst
    ELSE LET cumulative_return ==
                 IF k = 1 THEN returns[1] ELSE QAdd(cumulative, returns[k])
             new_peak ==
                 IF k = 1 THEN cumulative_return
                 ELSE QMax(peak, cumulative_return)
             drawdown == QSub(new_peak, cumulative_return)
         IN  max_drawdown_from(returns, k + 1, cumulative_return, new_peak,
                               IF k = 1 THEN drawdown
                               ELSE QMax(worst, drawdown))
max_drawdown(returns) == max_drawdown_from(returns, 1, Zero, Zero, Zero)

\* RLGemDetector.get_performance_metrics on a history of at most 50
\* outcomes.
get_performance_metrics(history, episodes, agent_epsilon, buffer_size) ==
    IF history = <<>> THEN [status |-> "No trading history yet"]
    ELSE LET percents ==
                 [k \in 1..Len(history) |-> history[k].profit_loss_percent]
             days == [k \in 1..Len(history) |-> Q(history[k].days_held, 1)]
             wins == {k \in 1..Len(history) : QLt(Zero, percents[k])}
         IN  [total_trades |-> Len(history),
              recent_win_rate |-> Q(Cardinality(wins), Len(history)),
              average_return_percent |-> mean(percents),
              average_holding_days |-> mean(days),
              total_return_percent |-> QSum(percents),
              learning_episodes |-> episodes,
              agent_epsilon |-> agent_epsilon,
              experience_buffer_size |-> buffer_size]

\* backtest_rl_strategy, lines 122-137.
final_metrics(results) ==
    IF results.total_trades > 0
    THEN LET returns ==
                 [k \in 1..Len(results.trades) |->
                     results.trades[k].profit_loss_percent]
         IN  Update(results,
                    [win_rate |->
                        Q(results.winning_trades, results.total_trades),
                     average_return |-> mean(returns),
                     return_std |-> std(returns),
                     sharpe_ratio |->
                        IF QLt(Zero, std(returns))
                        THEN QDiv(mean(returns), std(returns))
                        ELSE results.sharpe_ratio,
                     max_drawdown |-> max_drawdown(returns)])
    ELSE results

\* backtest_rl_strategy, lines 88-114: the trade made on data_point is
\* closed at the price of future_data and entered into the results.
traded(results, data_point, future_data, an, reward) ==
    LET profit_loss ==
            outcome_profit_loss_percent(data_point.price, future_data.price)
        trade_result ==
            [symbol |-> data_point.symbol,
             entry_price |-> data_point.price,
             exit_price |-> future_data.price,
             profit_loss_percent |-> profit_loss,
             rl_confidence |-> an.rl_confidence,
             gem_score |-> Get(an, "gem_score", Zero),
             reward |-> reward]
    IN  Update(results,
               [trades |-> Append(results.trades, trade_result),
                total_trades |-> results.total_trades + 1,
                winning_trades |->
                   IF QLt(Zero, profit_loss)
                   THEN results.winning_trades + 1
                   ELSE results.winning_trades,
                total_return |-> QAdd(results.total_return, profit_loss)])

\* backtest_rl_strategy, lines 116-120, after the i-th data point.
tracked(results, i) ==
    IF i % 50 = 0
    THEN Update(results,
                [learning_progress |->
                    Append(results.learning_progress,
                           Update(get_performance_metrics(
                                      performance_history',
                                      learning_episodes, epsilon',
                                      Len(memory')),
                                  [data_point |-> i]))])
    ELSE results

\* RLLiveTrading.save_rl_model on the detector it is called on.
save_rl_model(detector) ==
    /\ model_file' =
          [readable |-> TRUE,
           model_data |->
              [performance_history |-> detector.performance_history,
               learning_episodes |-> detector.learning_episodes,
               agent_epsilon |-> detector.epsilon,
               environment_balance |-> detector.current_balance],
           network |->
              IF torch_available /\ detector.q_network # None
              THEN detector.q_network
              ELSE IF model_file = NoFile THEN NoNetworkFile
                   ELSE model_file.network]
    /\ call' = Called("save_model", <<>>, FALSE, <<>>)

\* The records train_from_csv reads from the CSV file, in the order of
\* their timestamps: n records priced 20, but for the last one and for the
\* one lookback_days + 1 before it.
History(n, early_price, last_price, change) ==
    [k \in 1..n |->
        [symbol |-> "BTC",
         price |-> IF k = n THEN last_price
                   ELSE IF k = n - lookback_days - 1 THEN early_price
                   ELSE Q(20, 1),
         price_change_24h |-> change,
         fear_opportunity_score |-> Q(9, 10),
         volume_surge_anomaly |-> Q(9, 10),
         timestamp |-> k]]

\* A trainer's agent starts with epsilon 1 and explores, with confidence
\* 0.5, until the first replay has lowered epsilon, in the 110th analysis:
\* only longer histories have trades.
Histories ==
    {History(n, early_price, last_price, "absent") :
        n \in {0, 30, 31, 142}, early_price \in {Zero, Q(20, 1)},
        last_price \in {Q(10, 1), Q(22, 1)}}
    \cup {History(31, Q(20, 1), Q(22, 1), "number")}

\* The draws of the random number generators during a back-test: an
\* exploring agent draws hold.
BacktestDraws == {<<Zero, 0>>, <<Q(999, 1000), 0>>}

\* The application's detector when rl_train is requested: as constructed,
\* or having loaded a bundle and recorded the outcome of a trade.
LiveDetectors ==
    {[performance_history |-> <<>>, learning_episodes |-> 0,
      epsilon |-> One, current_balance |-> InitialBalance,
      q_network |-> IF torch_available THEN 0 ELSE None, experience |-> 0],
     [performance_history |-> <<outcome("ETH", Q(20, 1), Q(22, 1), 30)>>,
      learning_episodes |-> 0, epsilon |-> Q(9, 10),
      current_balance |-> Q(1900, 1),
      q_network |-> IF torch_available THEN 0 ELSE None, experience |-> 1]}

InitTrain ==
    /\ current_balance = InitialBalance
    /\ epsilon = One
    /\ positions = EmptyPositions
    /\ trade_history = <<>>
    /\ current_step = 0
    /\ ret = [op |-> "init", action |-> NoAction, raised |-> FALSE,
              reward |-> Zero, done |-> FALSE]
    /\ InitAgent
    /\ live \in LiveDetectors

\* rl_train up to the loop of backtest_rl_strategy.
BeginTraining ==
    /\ training.pc = "idle"
    /\ \E historical_data \in Histories :
          training' = [pc |-> "loop",
                       historical_data |-> sort_by_timestamp(historical_data),
                       i |-> 0, read |-> -1, results |-> initial_results]
    /\ UNCHANGED <<envVars, ret, agentVars, acted, learning_episodes,
                   analysis, performance_history, trade_log, model_file, call,
                   threads, calc, learnt, live>>

\* One iteration of the loop of backtest_rl_strategy, lines 71-120.  What
\* analyze_coin_with_rl raises ends train_from_csv, which returns the error.
BacktestRecord ==
    /\ training.pc = "loop"
    /\ training.i < Len(training.historical_data) - lookback_days
    /\ LET i == training.i
           data_point == training.historical_data[i + 1]
           future_data == training.historical_data[i + lookback_days + 1]
       IN  /\ \E draws \in BacktestDraws, q_choice \in QChoices :
                 analyze_coin_with_rl(data_point, FALSE, draws[1], draws[2],
                                      q_choice)
           /\ IF analysis'.raised
              THEN /\ training' = [training EXCEPT
                                      !.pc = "trained",
                                      !.results = [error |-> "raised"]]
                   /\ UNCHANGED <<performance_history, call>>
              ELSE IF /\ analysis'.result.rl_recommendation = "buy"
                      /\ QLt(Q(6, 10), analysis'.result.rl_confidence)
              THEN IF QLt(Zero, data_point.price)
                   THEN /\ learn_from_real_outcome(
                              data_point.symbol, data_point.price,
                              future_data.price, lookback_days,
                              analysis'.result)
                        /\ training' =
                              [training EXCEPT
                                 !.i = i + 1,
                                 !.read = i + lookback_days,
                                 !.results =
                                    tracked(traded(training.results,
                                                   data_point, future_data,
                                                   analysis'.result,
                                                   call'.result.reward),
                                            i)]
                   ELSE /\ UNCHANGED <<performance_history, call>>
                        /\ training' =
                              [training EXCEPT
                                 !.i = i + 1,
                                 !.read = i + lookback_days,
                                 !.results = tracked(training.results, i)]
              ELSE /\ UNCHANGED <<performance_history, call>>
                   /\ training' =
                         [training EXCEPT
                            !.i = i + 1,
                            !.results = tracked(training.results, i)]
    /\ UNCHANGED <<torch_available, learning_episodes, trade_log, model_file,
                   threads, calc, live>>

\* backtest_rl_strategy, lines 122-139, after the loop.
FinishBacktest ==
    /\ training.pc = "loop"
    /\ ~(training.i < Len(training.historical_data) - lookback_days)
    /\ training' = [training EXCEPT
                       !.pc = "trained",
                       !.results = final_metrics(training.results)]
    /\ UNCHANGED <<envVars, ret, agentVars, acted, learning_episodes,
                   analysis, performance_history, trade_log, model_file, call,
                   threads, calc, learnt, live>>

\* rl_train, lines 1969-1971, once train_from_csv has returned:
\* rl_detector.save_rl_model(model_path).
SaveTrained ==
    /\ training.pc = "trained"
    /\ save_rl_model(live)
    /\ training' = [training EXCEPT !.pc = "done"]
    /\ UNCHANGED <<envVars, ret, agentVars, acted, learning_episodes,
                   analysis, performance_history, trade_log, threads, calc,
                   learnt, live>>

NextTrain == BeginTraining \/ BacktestRecord \/ FinishBacktest \/ SaveTrained

SpecTrain == InitTrain /\ [][NextTrain]_vars

(***************************************************************************)
(* Properties.                                                             *)
(***************************************************************************)

\* C1 (under SpecAgent): when torch could not be imported, every call of
\* DQNAgent.act returns exactly the heuristic fallback's (action,
\* confidence) for the features it was given.
C1_HeuristicWithoutTorch ==
    (acted.called /\ ~torch_available) =>
        <<acted.action, acted.confidence>> = heuristic_action(acted.features)

\* C2 (under SpecAgent): when predict_hidden_gem returns None,
\* analyze_coin_with_rl completes without raising and what it returns
\* carries ai_enabled = false.
C2_NullClassifierIsFlagged ==
    (analysis.called /\ analysis.base = NoAnalysis) =>
        /\ ~analysis.raised
        /\ "ai_enabled" \in DOMAIN analysis.result
        /\ analysis.result.ai_enabled = FALSE

\* C3 (under Spec): a buy at a positive price whose position_value =
\* balance * min(confidence * 0.1, 0.05) is at least 1% of the balance adds
\* position_value / price to the quantity held of the symbol, takes exactly
\* position_value off the balance, and returns the reward
\* confidence * (gem_score / 100) * 0.1.
C3_AcceptedBuy ==
    [][(/\ ret'.op = "step"
        /\ ret'.action.action = "buy"
        /\ QLt(Zero, ret'.action.price)
        /\ QLe(QMul(current_balance, Q(1, 100)),
               QMul(current_balance,
                    QMin(QMul(ret'.action.confidence, Q(1, 10)), Q(5, 100)))))
       =>
       LET a == ret'.action
           position_value ==
               QMul(current_balance,
                    QMin(QMul(a.confidence, Q(1, 10)), Q(5, 100)))
           held == IF a.symbol \in DOMAIN positions
                   THEN positions[a.symbol].quantity
                   ELSE Zero
       IN  /\ ~ret'.raised
           /\ a.symbol \in DOMAIN positions'
           /\ positions'[a.symbol].quantity =
                 QAdd(held, QDiv(position_value, a.price))
           /\ current_balance' = QSub(current_balance, position_value)
           /\ ret'.reward =
                 QMul(QMul(a.confidence, Q(a.gem_score, 100)), Q(1, 10))
      ]_vars

\* C3's case: from a balance of 10000, a buy with confidence 0.8 at price 20
\* spent 500 on a quantity of 25 and left 9500.
C3_Witness ==
    /\ ret.op = "step"
    /\ ret.action.action = "buy"
    /\ ret.action.confidence = Q(4, 5)
    /\ ret.action.price = Q(20, 1)
    /\ current_balance = Q(9500, 1)
    /\ DOMAIN positions = {ret.action.symbol}
    /\ positions[ret.action.symbol].quantity = Q(25, 1)

\* C4 (under Spec): a sell of a held symbol adds quantity * price to the
\* balance, removes that symbol's position, leaves every other position as
\* it was, and appends exactly one outcome to the history, with
\* success = (profit_loss_percent > 0).
C4_SellClosesWholePosition ==
    [][(/\ ret'.op = "step"
        /\ ret'.action.action = "sell"
        /\ ret'.action.symbol \in DOMAIN positions)
       =>
       LET a == ret'.action
           recorded == trade_history'[Len(trade_history')]
       IN  /\ ~ret'.raised
           /\ current_balance' =
                 QAdd(current_balance,
                      QMul(positions[a.symbol].quantity, a.price))
           /\ DOMAIN positions' = DOMAIN positions \ {a.symbol}
           /\ \A s \in DOMAIN positions' : positions'[s] = positions[s]
           /\ Len(trade_history') = Len(trade_history) + 1
           /\ SubSeq(trade_history', 1, Len(trade_history)) = trade_history
           /\ recorded.action = a
           /\ recorded.success = QLt(Zero, recorded.profit_loss_percent)
      ]_vars

\* C4's case: one of two positions was sold at a profit and the other is
\* still held.
C4_Witness ==
    /\ ret.op = "step"
    /\ ret.action.action = "sell"
    /\ Len(trade_history) = 1
    /\ trade_history[1].success
    /\ Cardinality(DOMAIN positions) = 1
    /\ ret.action.symbol \notin DOMAIN positions

\* C5 (under Spec): a sell of a symbol that is not held returns -0.5
\* without raising, and leaves the balance, the positions and the history
\* as they were.
C5_SellWithoutPosition ==
    [][(/\ ret'.op = "step"
        /\ ret'.action.action = "sell"
        /\ ret'.action.symbol \notin DOMAIN positions)
       =>
       /\ ~ret'.raised
       /\ ret'.reward = Q(-1, 2)
       /\ current_balance' = current_balance
       /\ positions' = positions
       /\ trade_history' = trade_history
      ]_vars

\* C5's case: a symbol that is not held was sold while another is held.
C5_Witness ==
    /\ ret.op = "step"
    /\ ret.action.action = "sell"
    /\ ret.reward = Q(-1, 2)
    /\ positions # EmptyPositions
    /\ ret.action.symbol \notin DOMAIN positions
    /\ trade_history = <<>>

\* C6 (under Spec): a buy with confidence * 0.1 * balance below
\* 0.01 * balance returns -0.1, and leaves the positions and the balance as
\* they were.
C6_BuyBelowMinimum ==
    [][(/\ ret'.op = "step"
        /\ ret'.action.action = "buy"
        /\ QLt(QMul(QMul(ret'.action.confidence, Q(1, 10)), current_balance),
               QMul(Q(1, 100), current_balance)))
       =>
       /\ ~ret'.raised
       /\ ret'.reward = Q(-1, 10)
       /\ positions' = positions
       /\ current_balance' = current_balance
      ]_vars

\* C6's case: a buy with confidence 0.05 was refused while a position is
\* held.
C6_Witness ==
    /\ ret.op = "step"
    /\ ret.action.action = "buy"
    /\ ret.action.confidence = Q(1, 20)
    /\ ret.reward = Q(-1, 10)
    /\ positions # EmptyPositions

\* C7 (under Spec): a symbol bought at P1 without a prior position, then
\* left alone by holds and by actions on other symbols, then sold at P2, is
\* recorded with profit_loss_percent = (P2 - P1) / P1 * 100.  Stated step by
\* step: the accepted first buy of a symbol enters it at the buy's price; a
\* hold or an action on another symbol leaves the position as it is; and
\* the sell records (P2 - P1) / P1 * 100 for the entry price P1 the position
\* holds.
C7_ProfitLossPercent ==
    [][ret'.op = "step" =>
        LET a == ret'.action
        IN  \A s \in Symbols :
                /\ (/\ a.action = "buy"
                    /\ a.symbol = s
                    /\ s \notin DOMAIN positions
                    /\ QLt(Zero, a.price)
                    /\ QLe(Q(1, 100), QMin(QMul(a.confidence, Q(1, 10)),
                                           Q(5, 100))))
                   => /\ s \in DOMAIN positions'
                      /\ positions'[s].entry_price = a.price
                /\ (/\ s \in DOMAIN positions
                    /\ (a.action = "hold" \/ a.symbol # s))
                   => /\ s \in DOMAIN positions'
                      /\ positions'[s] = positions[s]
                /\ (/\ s \in DOMAIN positions
                    /\ a.action = "sell"
                    /\ a.symbol = s)
                   => /\ Len(trade_history') = Len(trade_history) + 1
                      /\ trade_history'[Len(trade_history')].profit_loss_percent
                            = QMul(QDiv(QSub(a.price,
                                             positions[s].entry_price),
                                        positions[s].entry_price),
                                   Q(100, 1))
       ]_vars

\* C7's case: BTC was bought at 20 and, with a step in between and ETH
\* held, sold at 22: the record says 10 percent.
C7_Witness ==
    /\ current_step = 3
    /\ ret.action.action = "sell"
    /\ ret.action.symbol = "BTC"
    /\ ret.action.price = Q(22, 1)
    /\ DOMAIN positions = {"ETH"}
    /\ Len(trade_history) = 1
    /\ trade_history[1].profit_loss_percent = Q(10, 1)

\* C8 (under SpecEpisode): step returns done = True exactly when, with the
\* action applied and the step counted, the step count is at least 1000, or
\* the balance is below 20% of initial_balance, or the balance plus the sum
\* of quantity * entry_price over the positions is above 200% of
\* initial_balance.
C8_DoneExactlyWhen ==
    [][(ret'.op = "step" /\ ~ret'.raised) =>
        LET held(s) ==
                IF s \in DOMAIN positions'
                THEN QMul(positions'[s].quantity, positions'[s].entry_price)
                ELSE Zero
            portfolio_value ==
                QAdd(current_balance', QAdd(held("BTC"), held("ETH")))
        IN  /\ DOMAIN positions' \subseteq {"BTC", "ETH"}
            /\ ret'.done =
                  (\/ current_step' >= 1000
                   \/ QLt(current_balance', Q(initial_balance * 2, 10))
                   \/ QLt(Q(initial_balance * 2, 1), portfolio_value))
       ]_vars

\* C8's case: before the time limit and with the balance far from ruin,
\* a sale took the portfolio over twice the initial balance and the step
\* reported done.
C8_Witness ==
    /\ ret.op = "step"
    /\ ret.done
    /\ current_step < 1000
    /\ positions = EmptyPositions
    /\ QLt(Q(20000, 1), current_balance)

\* C9 (under SpecEpisode): the step that brings the step count to 1000
\* reports done, and so does every later one, whatever the balance and the
\* portfolio are worth: a step that reports done = False has counted fewer
\* than 1000 steps since the reset.
C9_DoneByTimeLimit ==
    (ret.op = "step" /\ ~ret.raised /\ ~ret.done) => current_step < 1000

\* C9's case: after a reset, 1000 steps were taken that left the balance at
\* the initial balance and no position open; the last one reported done.
C9_Witness ==
    /\ ret.op = "step"
    /\ ret.done
    /\ current_step = 1000
    /\ current_balance = InitialBalance
    /\ positions = EmptyPositions
    /\ Len(trade_history) = 1
    /\ trade_history[1].final_price = Q(22, 1)

\* C10 (under SpecStore): after any number of remember calls the memory
\* holds at most 10000 transitions, the latest ones, in the order they were
\* stored: each call into a full memory drops exactly the oldest.  (The
\* n-th call, counting from 0, stores the state n.)
C10_BoundedInOrder ==
    /\ Len(memory) <= 10000
    /\ Len(memory) = IF remember_calls < 10000 THEN remember_calls ELSE 10000
    /\ \A i \in 1..Len(memory) :
          memory[i][1] = remember_calls - Len(memory) + (i - 1)

\* C10's case: the 10001st transition was stored, the first is gone, and
\* the memory runs from the second to the last.
C10_Witness ==
    /\ remember_calls = 10001
    /\ Len(memory) = 10000
    /\ memory[1][1] = 1
    /\ memory[10000][1] = 10000

\* C11 (under SpecService): a replay that trains takes epsilon to
\* max(epsilon_min, epsilon * epsilon_decay), so that N of them take an
\* epsilon0 to max(epsilon_min, epsilon0 * epsilon_decay^N), and leaves it
\* no lower than epsilon_min.
C11_DecayFlooredAtMinimum ==
    [][(q_network # None /\ q_network' = q_network + 1 /\ call' = call)
       =>
       /\ epsilon' = QMax(epsilon_min, QMul(epsilon, epsilon_decay))
       /\ QLe(epsilon_min, epsilon')]_vars

\* C12 (under SpecService): no call on the agent or on the detector that
\* holds it - remember, replay, update_target_network,
\* learn_from_real_outcome, record_trade_outcome, save_model, load_model -
\* leaves epsilon larger than it found it.
C12_EpsilonNeverIncreases ==
    [][QLe(epsilon', epsilon)]_vars

\* C13 (under SpecService): the reward learn_from_real_outcome records and
\* returns for a trade entered at a positive price is the close reward of a
\* simulated sell, calculate_sell_reward, for the same profit_loss_percent
\* and holding days and the confidence of the analysis it is given: the
\* confidence bonus included, clipped to [-2, 2].
C13_RecorderUsesCloseReward ==
    (call.op = "learn_from_real_outcome" /\ ~call.raised) =>
        LET recorded == performance_history[Len(performance_history)]
        IN  /\ call.result.reward = recorded.reward
            /\ recorded.reward =
                  calculate_sell_reward(
                      recorded.profit_loss_percent, recorded.days_held,
                      call.args.initial_features.rl_confidence)

C17_FailedLoadOverwritesNothing ==
    [][(/\ call'.count = call.count + 1
        /\ call'.op = "load_model"
        /\ ~call'.result.ok)
       =>
       /\ ~call'.raised
       /\ UNCHANGED <<performance_history, learning_episodes, epsilon,
                      current_balance>>]_vars

\* C16 (under SpecAgent): an analysis of a coin whose price is zero or
\* negative, and whose features can be extracted, is a no-op: nothing is
\* raised, and balance, positions, step count and the agent's memory are
\* as they were.
C16_InvalidPriceIsNoOp ==
    [][(/\ analysis'.called
        /\ analysis' # analysis
        /\ ~extract_raises(analysis'.coin)
        /\ ~QLt(Zero, analysis'.coin.price))
       =>
       /\ ~analysis'.raised
       /\ UNCHANGED <<current_balance, positions, current_step, memory>>]_vars

\* C18 (under SpecCalc): the close reward _calculate_sell_reward returns is
\* within [-2, 2] for every profit_loss_percent, every holding_days >= 0
\* and every confidence in [0, 1].
C18_CloseRewardWithinBounds ==
    calc.function = "_calculate_sell_reward" =>
        /\ QLe(Q(-2, 1), calc.result)
        /\ QLe(calc.result, Q(2, 1))

C18_Witness ==
    /\ calc.function = "_calculate_sell_reward"
    /\ calc.args = <<Q(300, 1), 0, One>>
    /\ calc.result = Q(6, 5)

\* C19 (under SpecCalc): with buy_score the mean of gem_score / 100,
\* fear_opportunity_score and volume_surge_anomaly, a missing field counting
\* as 0, the heuristic fallback returns buy with confidence buy_score when
\* buy_score > 0.7, sell with confidence 1 - buy_score when buy_score < 0.3
\* and hold with confidence 0.5 otherwise, at exactly 0.3 and 0.7 too; the
\* confidence is in [0, 1].
C19_HeuristicThresholds ==
    calc.function = "_heuristic_action" =>
        LET field(k) == IF k \in DOMAIN calc.args THEN calc.args[k] ELSE Zero
            gem == IF "gem_score" \in DOMAIN calc.args
                   THEN Q(calc.args.gem_score, 100) ELSE Zero
            sum == QAdd(gem, QAdd(field("fear_opportunity_score"),
                                  field("volume_surge_anomaly")))
            buy_score == QMul(sum, Q(1, 3))
            action == calc.result[1]
            confidence == calc.result[2]
        IN  /\ QLt(Q(21, 10), sum) => (action = 1 /\ confidence = buy_score)
            /\ QLt(sum, Q(9, 10)) =>
                  (action = 2 /\ QAdd(confidence, buy_score) = One)
            /\ (QLe(Q(9, 10), sum) /\ QLe(sum, Q(21, 10))) =>
                  (action = 0 /\ confidence = Q(1, 2))
            /\ QLe(Zero, confidence) /\ QLe(confidence, One)

C19_Witness ==
    /\ calc.function = "_heuristic_action"
    /\ calc.args = [gem_score |-> 70, fear_opportunity_score |-> Q(7, 10),
                    volume_surge_anomaly |-> Q(7, 10)]
    /\ calc.result = <<0, Q(1, 2)>>

\* C20 (under Spec): a hold returns the reward +0.05 when the gem score is
\* below 50, -0.1 when it is above 80 and -0.02 otherwise, at exactly 50
\* and exactly 80 too, and leaves the balance and the positions as they
\* were.
C20_HoldReward ==
    [][(ret'.op = "step" /\ ret'.action.action = "hold")
       =>
       LET g == ret'.action.gem_score
       IN  /\ ~ret'.raised
           /\ g < 50 => ret'.reward = Q(1, 20)
           /\ g > 80 => ret'.reward = Q(-1, 10)
           /\ (50 <= g /\ g <= 80) => ret'.reward = Q(-1, 50)
           /\ UNCHANGED <<current_balance, positions>>]_vars

C20_Witness ==
    /\ ret.op = "step"
    /\ ret.action.action = "hold"
    /\ ret.action.gem_score = 80
    /\ ret.reward = Q(-1, 50)
    /\ positions # EmptyPositions

\* C15 (under SpecConcurrent): when two concurrent calls of
\* analyze_coin_with_rl on the shared detector have both returned, the
\* balance, the positions and the agent's memory are those that one of the
\* two serial orders of the calls leaves: no balance update and no position
\* merge is lost.
C15_Serializable ==
    (\A t \in ThreadIds : At(t, "returned")) =>
        LET fresh == [balance |-> InitialBalance,
                      positions |-> EmptyPositions, step |-> 0,
                      memory |-> <<>>]
            now == [balance |-> current_balance, positions |-> positions,
                    step |-> current_step, memory |-> memory]
        IN  \/ now = Alone(Alone(fresh, threads[1].action), threads[2].action)
            \/ now = Alone(Alone(fresh, threads[2].action), threads[1].action)

\* C21 (under Spec): an accepted buy of a symbol that is already held
\* leaves one position of that symbol, whose quantity is the sum of the two
\* quantities, whose entry_price is the average of the old entry_price and
\* the new price weighted by their quantities, and whose entry_date is the
\* entry_date of the position that was held.
C21_MergedPosition ==
    [][(/\ ret'.op = "step"
        /\ ret'.action.action = "buy"
        /\ ret'.action.symbol \in DOMAIN positions
        /\ QLe(QMul(current_balance, Q(1, 100)),
               QMul(current_balance,
                    QMin(QMul(ret'.action.confidence, Q(1, 10)), Q(5, 100)))))
       =>
       LET a == ret'.action
           old == positions[a.symbol]
           bought ==
               QDiv(QMul(current_balance,
                         QMin(QMul(a.confidence, Q(1, 10)), Q(5, 100))),
                    a.price)
       IN  /\ DOMAIN positions' = DOMAIN positions
           /\ positions'[a.symbol].quantity = QAdd(old.quantity, bought)
           /\ QMul(positions'[a.symbol].entry_price,
                   QAdd(old.quantity, bought))
                 = QAdd(QMul(old.quantity, old.entry_price),
                        QMul(bought, a.price))
           /\ positions'[a.symbol].entry_date = old.entry_date
           /\ \A s \in DOMAIN positions \ {a.symbol} :
                 positions'[s] = positions[s]
      ]_vars

\* C21's case: a position entered on day 0 at price 1 was added to on day 5
\* at price 20.
C21_Witness ==
    /\ ret.op = "step"
    /\ ret.action.action = "buy"
    /\ ret.action.timestamp = 5
    /\ ret.action.symbol \in DOMAIN positions
    /\ positions[ret.action.symbol].entry_date = 0
    /\ QLt(One, positions[ret.action.symbol].entry_price)
    /\ QLt(positions[ret.action.symbol].entry_price, Q(20, 1))

\* C22 (under Spec): in every state reached by steps at prices above 0 with
\* confidences in [0, 1], steps after done = True included, the balance is
\* at least 0 and every open position has a quantity above 0.
C22_BalanceAndQuantities ==
    /\ QLe(Zero, current_balance)
    /\ \A s \in DOMAIN positions : QLt(Zero, positions[s].quantity)

\* C22's case: a buy made in an episode that was already done (the target
\* was reached by an earlier sell) has opened a position.
C22_Witness ==
    /\ ret.op = "step"
    /\ ret.action.action = "buy"
    /\ ret.done
    /\ QLt(QMul(InitialBalance, Q(2, 1)), current_balance)
    /\ ret.action.symbol \in DOMAIN positions

\* C23 (under SpecCalc): the risk score is mapped onto four levels: every
\* result of _assess_risk is one of Low, Medium, High and Very High, and
\* each of the four is the result for some coin and analysis.
C23_FourRiskLevels ==
    calc.function = "_assess_risk" =>
        /\ calc.result.risk_level \in {"Low", "Medium", "High", "Very High"}
        /\ \A level \in {"Low", "Medium", "High", "Very High"} :
              \E an \in RiskAnalyses, coin_data \in RiskCoins :
                 assess_risk(an, coin_data).risk_level = level

\* C28 (under Spec): the portfolio value (the balance plus quantity x
\* entry_price over the open positions) is left as it was by a hold, by a
\* rejected buy, by a rejected sell and by an accepted buy, whether it opens
\* a position or adds to one; an accepted sell changes it by exactly the
\* closed quantity x (sell price - entry_price).  So a step on which the
\* value first exceeds twice the initial balance is an accepted sell.
C28_PortfolioValue ==
    [][ret'.op = "step" =>
       LET a == ret'.action
           sold == /\ ~ret'.raised
                   /\ a.action = "sell"
                   /\ a.symbol \in DOMAIN positions
           before == calculate_portfolio_value(current_balance, positions)
           after == calculate_portfolio_value(current_balance', positions')
           target == QMul(InitialBalance, Q(2, 1))
       IN  /\ IF sold
              THEN after = QAdd(before,
                                QMul(positions[a.symbol].quantity,
                                     QSub(a.price,
                                          positions[a.symbol].entry_price)))
              ELSE after = before
           /\ (QLt(target, after) /\ ~QLt(target, before)) => sold
      ]_vars

\* C28's case: a position that was opened and then added to at another
\* price has been sold, and the sale has taken the portfolio value over the
\* target.
C28_Witness ==
    /\ ret.op = "step"
    /\ ret.action.action = "sell"
    /\ ret.done
    /\ current_step = 3
    /\ Len(trade_history) = 1
    /\ trade_history[1].action = ret.action
    /\ QLt(QMul(InitialBalance, Q(2, 1)),
           calculate_portfolio_value(current_balance, positions))

\* C29 (under SpecAgent): in an analysis that simulated its action, the
\* gem_score among the features the agent was given and the gem_score of
\* the simulated TradingAction are the gem_score the returned analysis
\* reports.
C29_OneGemScore ==
    (/\ analysis.called
     /\ ~analysis.raised
     /\ acted.called
     /\ ret.op = "step")
    => /\ Q(Get(acted.features, "gem_score", 0), 1)
             = analysis.result.gem_score
       /\ Q(ret.action.gem_score, 1) = analysis.result.gem_score

\* C25 (under SpecRun): a call of analyze_coin_with_rl calls replay only
\* when the memory it has just added to holds more than 100 transitions,
\* and at least 10 transitions have been stored since the call before that
\* called replay; at every fill level, the full memory included.
C25_ReplayOncePerStride ==
    [][(/\ remember_calls' = remember_calls + 1
        /\ learnt'.replayed_at = remember_calls')
       => /\ Len(memory') > 100
          /\ learnt.replayed_at # None
                => remember_calls' - learnt.replayed_at >= 10
      ]_vars

\* C26 (under SpecRun): exactly 100 remember calls lie between a call of
\* update_target_network and the one before it, at every fill level, the
\* full memory included.
C26_SyncEveryHundred ==
    [][(/\ remember_calls' = remember_calls + 1
        /\ learnt'.synced_at = remember_calls'
        /\ learnt.synced_at # None)
       => remember_calls' - learnt.synced_at = 100
      ]_vars

\* C27 (under SpecRun): in a run of calls of analyze_coin_with_rl, the
\* environment is not stepped after a step has returned done = True unless
\* it has been reset, and its step count never exceeds 1000.
C27_NoStepAfterDone ==
    [][/\ current_step' <= max_steps
       /\ (ret.op = "step" /\ ret.done /\ ret'.op # "reset")
             => UNCHANGED envVars
      ]_vars

\* C24 (under SpecTrain): whatever the ordered records and whether or not a
\* trade is made, the result of the back-test contains total_trades,
\* win_rate, average_return, return_std, sharpe_ratio, max_drawdown and
\* learning_progress, and no record beyond the end of the list is read.
C24_CompleteResult ==
    training.pc \in {"trained", "done"}
    => /\ {"total_trades", "win_rate", "average_return", "return_std",
           "sharpe_ratio", "max_drawdown", "learning_progress"}
             \subseteq DOMAIN training.results
       /\ training.read < Len(training.historical_data)

\* C30 (under SpecTrain): when rl_train has completed a run that recorded
\* outcomes, the bundle it saved and the application's detector contain
\* these outcomes and have the epsilon the run left, and the detector holds
\* the run's experience.
C30_TrainingIsSavedAndLive ==
    (training.pc = "done" /\ performance_history # <<>>)
    => /\ \A k \in 1..Len(performance_history) :
             /\ \E j \in 1..Len(model_file.model_data.performance_history) :
                   model_file.model_data.performance_history[j]
                      = performance_history[k]
             /\ \E j \in 1..Len(live.performance_history) :
                   live.performance_history[j] = performance_history[k]
       /\ model_file.model_data.agent_epsilon = epsilon
       /\ live.epsilon = epsilon
       /\ live.experience >= Len(memory)

====
